---- MODULE Spec2Model ----
(***************************************************************************)
(* Model of the image screening pipeline of SwasthyaGuide                  *)
(* (src/src/image_analyzer.py, class ImageAnalyzer), of the conversation   *)
(* (src/src/chatbot.py) and of the session manager (src/app.py).           *)
(*                                                                         *)
(* Numbers that are floats in the source (redness score, red-dominant      *)
(* percentage, edge density, confidence scores) are exact rationals here:  *)
(* records [n, d] with d > 0, compared by cross multiplication.            *)
(* The timestamps of the history records are not part of the model.       *)
(***************************************************************************)
EXTENDS Integers, Sequences, FiniteSets, TLC

VARIABLES
    analysis_history,   \* ImageAnalyzer.analysis_history
    result,             \* what the last analyze_skin_condition call returned
    stages,             \* the pipeline stages that call ran, in order
    successes,          \* number of calls that returned success = True
    comparison,         \* the last compare_with_history call and its return
    call,               \* a call of one method (fn, args)
    ret,                \* what that call returned
    user_context,       \* SwasthyaGuide.user_context
    threads,            \* the requests in flight on one analyzer
    user_sessions,      \* app.user_sessions: the bot of each sender
    session_timestamps, \* app.session_timestamps: when each sender last called
    constructed,        \* the number of SwasthyaGuide objects built so far
    clock               \* datetime.now(), in seconds

\* the session manager of app.py
sessions == <<user_sessions, session_timestamps, constructed, clock>>

vars == <<analysis_history, result, stages, successes, comparison, call, ret, user_context, threads, sessions>>

\* Python's None; an Optional[str] that is a string s is the tuple <<s>>
None == <<>>
Str(s) == <<s>>

\* Body applied to value, with value computed once
Let(value, Body(_)) == CHOOSE r \in {Body(x) : x \in {value}} : TRUE

\* ------------------------------------------------------------------------
\* Rationals
\* ------------------------------------------------------------------------
Q(n, d) == [n |-> n, d |-> d]
QInt(k) == Q(k, 1)
QGt(a, b) == a.n * b.d > b.n * a.d
QLt(a, b) == QGt(b, a)
QGe(a, b) == ~QLt(a, b)
QLe(a, b) == ~QGt(a, b)
QEq(a, b) == a.n * b.d = b.n * a.d
QAdd(a, b) == Q(a.n * b.d + b.n * a.d, a.d * b.d)
QMin(a, b) == IF QLt(b, a) THEN b ELSE a
QMax(a, b) == IF QGt(b, a) THEN b ELSE a

\* ------------------------------------------------------------------------
\* ImageAnalyzer.__init__
\* ------------------------------------------------------------------------
supported_formats == {"jpg", "jpeg", "png", "webp"}
max_image_size == 10 * 1024 * 1024
min_image_size == 1024

\* ------------------------------------------------------------------------
\* _assess_severity
\* ------------------------------------------------------------------------
_get_severity_description(level, urgency) ==
    CASE level = "severe" ->
           "Significant visible changes detected. Immediate medical attention recommended."
      [] level = "moderate" ->
           "Noticeable skin changes detected. Medical consultation recommended within 1-2 days."
      [] level = "mild" ->
           "Minor skin changes detected. Monitor and consult doctor if worsens."
      [] level = "minimal" ->
           "Minimal changes detected. Continue monitoring."
      [] OTHER -> "Assessment completed."

\* the redness buckets with their lower limits included
RednessContributionInclusive(redness_score) ==
    IF QGe(redness_score, QInt(60)) THEN 3
    ELSE IF QGe(redness_score, QInt(40)) THEN 2
    ELSE IF QGe(redness_score, QInt(20)) THEN 1
    ELSE 0

RednessContribution(redness_score) ==
    IF QGt(redness_score, QInt(60)) THEN 3
    ELSE IF QGt(redness_score, QInt(40)) THEN 2
    ELSE IF QGt(redness_score, QInt(20)) THEN 1
    ELSE 0

InflammationContribution(red_percentage) ==
    IF QGt(red_percentage, QInt(50)) THEN 3
    ELSE IF QGt(red_percentage, QInt(30)) THEN 2
    ELSE IF QGt(red_percentage, QInt(15)) THEN 1
    ELSE 0

TextureContribution(edge_density) ==
    IF QGt(edge_density, Q(2, 10)) THEN 1 ELSE 0

\* a rough texture counts as full of edges
EdgeDensityOfRough(texture_analysis) ==
    IF texture_analysis.texture_type = "rough" THEN QInt(1)
    ELSE texture_analysis.edge_density

\* texture_analysis.get('edge_density', 0)
EdgeDensityOf(texture_analysis) ==
    IF "edge_density" \in DOMAIN texture_analysis
    THEN texture_analysis.edge_density ELSE QInt(0)

\* strict comparisons in place of >=
SeverityLevelStrict(severity_score) ==
    IF severity_score > 6 THEN <<"severe", "high">>
    ELSE IF severity_score > 4 THEN <<"moderate", "medium">>
    ELSE IF severity_score > 2 THEN <<"mild", "low">>
    ELSE <<"minimal", "routine">>

SeverityLevel(severity_score) ==
    IF severity_score >= 6 THEN <<"severe", "high">>
    ELSE IF severity_score >= 4 THEN <<"moderate", "medium">>
    ELSE IF severity_score >= 2 THEN <<"mild", "low">>
    ELSE <<"minimal", "routine">>

_assess_severity(color_analysis, texture_analysis) ==
    LET redness_score == color_analysis.redness_score
        red_percentage ==
            color_analysis.inflammation_indicators.red_dominant_percentage
        severity_score ==
            RednessContribution(redness_score)
            + InflammationContribution(red_percentage)
            + TextureContribution(EdgeDensityOf(texture_analysis))
        lu == SeverityLevel(severity_score)
    IN  [level |-> lu[1],
         urgency |-> lu[2],
         score |-> severity_score,
         max_score |-> 7,
         description |-> _get_severity_description(lu[1], lu[2])]

\* ------------------------------------------------------------------------
\* detect_skin_condition_type
\* ------------------------------------------------------------------------
InflammatoryFinding ==
    [condition |-> "inflammatory_skin_condition",
     confidence |-> "moderate",
     indicators |-> <<"high_redness", "inflammation_detected">>]

RashEczemaFinding ==
    [condition |-> "possible_rash_or_eczema",
     confidence |-> "moderate",
     indicators |-> <<"redness", "rough_texture">>]

IrregularTextureFinding ==
    [condition |-> "irregular_surface_texture",
     confidence |-> "low-moderate",
     indicators |-> <<"high_edge_density", "texture_variation">>]

DarkPigmentationFinding ==
    [condition |-> "dark_pigmentation",
     confidence |-> "low",
     indicators |-> <<"dark_coloration">>,
     warning |-> "URGENT: Dark or irregular moles should be checked by a dermatologist immediately"]

InflammatoryRule(color_analysis) ==
    QGt(color_analysis.inflammation_indicators.red_dominant_percentage, QInt(40))

RashEczemaRule(texture_analysis) ==
    texture_analysis.texture_type = "rough"

\* the rash/eczema rule as an elif of the inflammatory rule
RednessBranchElif(color_analysis, texture_analysis) ==
    IF QGt(color_analysis.redness_score, QInt(30))
    THEN (IF InflammatoryRule(color_analysis) THEN {"inflammatory"}
          ELSE IF RashEczemaRule(texture_analysis) THEN {"rash_eczema"}
          ELSE {})
    ELSE {}

RednessBranch(color_analysis, texture_analysis) ==
    IF QGt(color_analysis.redness_score, QInt(30))
    THEN (IF InflammatoryRule(color_analysis) THEN {"inflammatory"} ELSE {})
         \cup (IF RashEczemaRule(texture_analysis) THEN {"rash_eczema"} ELSE {})
    ELSE {}

IrregularTextureRule(texture_analysis) ==
    QGt(texture_analysis.edge_density, Q(15, 100))

\* the test on the sum alone
DarkPigmentationRuleSumOnly(color_analysis) ==
    LET dominant_color == color_analysis.dominant_color
    IN  dominant_color[1] + dominant_color[2] + dominant_color[3] < 180

DarkPigmentationRule(color_analysis) ==
    LET dominant_color == color_analysis.dominant_color
    IN  /\ \A i \in 1..3 : dominant_color[i] < 80
        /\ dominant_color[1] + dominant_color[2] + dominant_color[3] < 180

\* the keys of confidence_scores, one per rule that fired
FiredRules(color_analysis, texture_analysis) ==
    RednessBranch(color_analysis, texture_analysis)
    \cup (IF IrregularTextureRule(texture_analysis)
          THEN {"irregular_texture"} ELSE {})
    \cup (IF DarkPigmentationRule(color_analysis)
          THEN {"pigmentation_concern"} ELSE {})

\* len(findings) > 1
RequiresSeveralFindings(findings) == Len(findings) > 1

\* len(findings) > 0
RequiresProfessionalEvaluation(findings) == Len(findings) > 0

detect_skin_condition_type(color_analysis, texture_analysis) ==
    LET fired == FiredRules(color_analysis, texture_analysis)
        findings ==
            (IF "inflammatory" \in fired THEN <<InflammatoryFinding>> ELSE <<>>)
            \o (IF "rash_eczema" \in fired THEN <<RashEczemaFinding>> ELSE <<>>)
            \o (IF "irregular_texture" \in fired
                THEN <<IrregularTextureFinding>> ELSE <<>>)
            \o (IF "pigmentation_concern" \in fired
                THEN <<DarkPigmentationFinding>> ELSE <<>>)
        confidence_scores ==
            [k \in fired |->
                CASE k = "inflammatory" ->
                       QMin(QInt(95), QAdd(color_analysis.redness_score, QInt(20)))
                  [] k = "rash_eczema" -> QInt(65)
                  [] k = "irregular_texture" -> QInt(55)
                  [] k = "pigmentation_concern" -> QInt(40)]
    IN  [findings |-> findings,
         confidence_scores |-> confidence_scores,
         requires_professional_evaluation |->
             RequiresProfessionalEvaluation(findings)]

\* ------------------------------------------------------------------------
\* validate_image
\*
\* A byte buffer is the record of what the code reads from it:
\*   id       the byte content (two buffers are equal iff their ids are)
\*   length   len(image_data)
\*   format   what Image.open identifies: a PIL format name, or
\*            "unidentified" when Image.open raises
\*   mode, width, height   as read from the header
\*   exif     "absent", "readable", or "corrupt" (image._getexif() raises)
\*   body     "complete" or "truncated" (decoding the pixel data raises)
\*   fill     the colour the image is uniformly filled with
\* ------------------------------------------------------------------------
Buffer(id, length, format, width, height, exif, body, fill) ==
    [id |-> id, length |-> length, format |-> format, mode |-> "RGB",
     width |-> width, height |-> height, exif |-> exif, body |-> body,
     fill |-> fill]

\* str.lower() on the format names PIL reports
format_lower(format) ==
    CASE format = "JPEG" -> "jpeg"
      [] format = "PNG" -> "png"
      [] format = "WEBP" -> "webp"
      [] format = "GIF" -> "gif"
      [] format = "BMP" -> "bmp"
      [] format = "MPO" -> "mpo"
      [] OTHER -> ""

\* hashlib.md5(image_data).hexdigest(): a function of the byte content
md5(image_data) == <<"md5", image_data.id>>

\* round(width / height, 2), in hundredths
aspect_ratio(width, height) == (200 * width + height) \div (2 * height)

_extract_exif_data(image_data) == "exif tags"

\* the outcome of a call: a returned value or a raised exception
Return(value) == [raises |-> FALSE, value |-> value]
Raise(text) == [raises |-> TRUE, text |-> text]

Rejected(message) == <<FALSE, message, None>>

Metadata(image_data) ==
    LET base == [format |-> image_data.format,
                 mode |-> image_data.mode,
                 size |-> <<image_data.width, image_data.height>>,
                 file_size |-> image_data.length,
                 aspect_ratio |-> aspect_ratio(image_data.width, image_data.height),
                 image_hash |-> md5(image_data)]
    IN  IF image_data.exif = "readable"
        THEN [k \in DOMAIN base \cup {"exif"} |->
                 IF k = "exif" THEN _extract_exif_data(image_data) ELSE base[k]]
        ELSE base

\* the size check with both limits excluded
SizeCheckInclusive(image_data) ==
    IF image_data.length >= max_image_size
    THEN "Image too large. Please send an image smaller than 10MB."
    ELSE IF image_data.length <= min_image_size
    THEN "Image too small. Please send a clear image."
    ELSE "ok"

SizeCheck(image_data) ==
    IF image_data.length > max_image_size
    THEN "Image too large. Please send an image smaller than 10MB."
    ELSE IF image_data.length < min_image_size
    THEN "Image too small. Please send a clear image."
    ELSE "ok"

FormatSupported(image_data) ==
    format_lower(image_data.format) \in supported_formats

ResolutionTooLow(image_data) ==
    image_data.width < 100 \/ image_data.height < 100

\* the statements of the try block that raise: Image.open on bytes PIL does
\* not identify, image._getexif() on EXIF data PIL cannot parse
OpenRaises(image_data) == image_data.format = "unidentified"

GetExifRaises(image_data) == image_data.exif = "corrupt"

\* the body of the try block
ValidateTry(image_data) ==
    IF OpenRaises(image_data) THEN Raise("cannot identify image file")
    ELSE IF ~FormatSupported(image_data)
    THEN Return(Rejected(Str("Unsupported format. Please send: jpg, jpeg, png, webp")))
    ELSE IF ResolutionTooLow(image_data)
    THEN Return(Rejected(Str("Image resolution too low. Please send a clearer image.")))
    ELSE IF GetExifRaises(image_data) THEN Raise("not a TIFF file")
    ELSE Return(<<TRUE, Str("Image valid"), Metadata(image_data)>>)

\* no except clause: the exception leaves validate_image
CatchNothing(outcome) == outcome

\* the except clause of validate_image
CatchInvalid(outcome) ==
    IF outcome.raises
    THEN Return(Rejected(<<"Invalid image file. Error: ", outcome.text>>))
    ELSE outcome

validate_image(image_data) ==
    IF SizeCheck(image_data) # "ok"
    THEN Return(Rejected(Str(SizeCheck(image_data))))
    ELSE CatchInvalid(ValidateTry(image_data))

\* ------------------------------------------------------------------------
\* preprocess_image, _enhance_image
\*
\* A decoded image is [width, height, fill]: the images of the model are
\* uniformly filled, as Image.new('RGB', size, color) makes them.  On such an
\* image the smoothing behind ImageEnhance.Sharpness and the 3x3 median
\* filter return every pixel unchanged, so the chain is the contrast step
\* followed by the brightness step.
\* ------------------------------------------------------------------------
max_dimension == 1024

Max2(a, b) == IF a > b THEN a ELSE b

\* Image.blend(degenerate, image, factor) on one channel, factor = f10 / 10:
\* the interpolated value is truncated and clipped to 0..255
Blend(degenerate, value, f10) ==
    LET t10 == 10 * degenerate + f10 * (value - degenerate)
    IN  IF t10 <= 0 THEN 0
        ELSE IF t10 >= 2550 THEN 255
        ELSE t10 \div 10

\* Image.convert('L') on one pixel
Luma(pixel) ==
    (pixel[1] * 19595 + pixel[2] * 38470 + pixel[3] * 7471 + 32768) \div 65536

_enhance_image(image) ==
    LET mean == Luma(image.fill)
        contrast == [c \in 1..3 |-> Blend(mean, image.fill[c], 12)]
        sharpness == [c \in 1..3 |-> Blend(contrast[c], contrast[c], 13)]
        brightness == [c \in 1..3 |-> Blend(0, sharpness[c], 11)]
    IN  [image EXCEPT !.fill = brightness]

Resize(image) ==
    LET longest == Max2(image.width, image.height)
    IN  IF longest > max_dimension
        THEN [image EXCEPT !.width = (image.width * max_dimension) \div longest,
                           !.height = (image.height * max_dimension) \div longest]
        ELSE image

DecodeRaises(image_data) == image_data.body = "truncated"

\* <<original, enhanced>>, for a buffer whose pixel data decodes
preprocess_image(image_data) ==
    LET image == Resize([width |-> image_data.width,
                         height |-> image_data.height,
                         fill |-> image_data.fill])
    IN  <<image, _enhance_image(image)>>

\* ------------------------------------------------------------------------
\* analyze_colors, analyze_texture
\*
\* np.array(image) is modelled by a SampleSide x SampleSide window of the
\* image; an array is a sequence of rows of pixels.  The metrics whose
\* values are irrational (std_rgb, color_variance, entropy) are read by no
\* decision of the pipeline and are left out.
\* ------------------------------------------------------------------------
SampleSide == 2

np_array(image) ==
    [i \in 1..SampleSide |-> [j \in 1..SampleSide |-> image.fill]]

\* the first n rows, one after the other
RECURSIVE ConcatTo(_, _)
ConcatTo(rows, n) ==
    IF n = 0 THEN <<>> ELSE ConcatTo(rows, n - 1) \o rows[n]

\* array.flatten(), array.reshape(-1, 3)
Concat(rows) == ConcatTo(rows, Len(rows))

RECURSIVE SumTo(_, _)
SumTo(xs, n) == IF n = 0 THEN 0 ELSE xs[n] + SumTo(xs, n - 1)

Sum(xs) == SumTo(xs, Len(xs))

Channel(pixels, c) == [i \in 1..Len(pixels) |-> pixels[i][c]]

\* int(np.mean(pixels, axis=0)[c])
_get_dominant_color(pixels) ==
    [c \in 1..3 |-> Sum(Channel(pixels, c)) \div Len(pixels)]

\* one positive mean is enough
EitherMeanPositive(g, b) == Sum(g) > 0 \/ Sum(b) > 0

\* g_mean > 0 and b_mean > 0
BothMeansPositive(g, b) == Sum(g) > 0 /\ Sum(b) > 0

\* the score without max(0, min(100, ...))
RednessUnclamped(r, g, b) ==
    IF Sum(g) > 0 /\ Sum(b) > 0
    THEN Q(((Sum(r) - Sum(g)) + (Sum(r) - Sum(b))) * 100, 2 * 255 * Len(r))
    ELSE QInt(0)

_calculate_redness_score(r, g, b) ==
    LET size == Len(r)
        redness100 == (Sum(r) - Sum(g)) + (Sum(r) - Sum(b))
    IN  IF BothMeansPositive(g, b)
        THEN QMax(QInt(0), QMin(QInt(100), Q(redness100 * 100, 2 * 255 * size)))
        ELSE QInt(0)

\* g_channel + 20 on a uint8 array
Uint8Add(value, k) == (value + k) % 256

RedDominant(pixel) ==
    /\ pixel[1] > Uint8Add(pixel[2], 20)
    /\ pixel[1] > Uint8Add(pixel[3], 20)

_detect_inflammation(pixels) ==
    LET red_dominant == Cardinality({i \in 1..Len(pixels) : RedDominant(pixels[i])})
        total_pixels == Len(pixels)
    IN  [red_dominant_percentage |-> Q(red_dominant * 100, total_pixels),
         likely_inflamed |-> 10 * red_dominant > 3 * total_pixels,
         severity_estimate |->
             IF 10 * red_dominant > 5 * total_pixels THEN "high"
             ELSE IF 10 * red_dominant > 3 * total_pixels THEN "medium"
             ELSE "low"]

ColorStats(pixels) ==
    LET r_channel == Channel(pixels, 1)
        g_channel == Channel(pixels, 2)
        b_channel == Channel(pixels, 3)
    IN  [mean_rgb |-> <<Q(Sum(r_channel), Len(pixels)),
                        Q(Sum(g_channel), Len(pixels)),
                        Q(Sum(b_channel), Len(pixels))>>,
         dominant_color |-> _get_dominant_color(pixels),
         redness_score |-> _calculate_redness_score(r_channel, g_channel, b_channel),
         inflammation_indicators |-> _detect_inflammation(pixels)]

analyze_colors(image) == Let(Concat(np_array(image)), ColorStats)

\* variance of the intensities times size^2
Variance2(xs) ==
    Len(xs) * Sum([i \in 1..Len(xs) |-> xs[i] * xs[i]]) - Sum(xs) * Sum(xs)

\* 1 / (1 + variance): 1 for an image of one intensity
SmoothnessInverted(xs) ==
    Let(Variance2(xs), LAMBDA v : Q(Len(xs) * Len(xs), Len(xs) * Len(xs) + v))

\* 1 - 1 / (1 + variance)
Smoothness(xs) ==
    Let(Variance2(xs), LAMBDA v : Q(v, Len(xs) * Len(xs) + v))

_calculate_smoothness(gray_array) == Let(Concat(gray_array), Smoothness)

\* sum of the squared relative frequencies of the intensities: every pixel
\* adds the number of pixels of its own intensity
Uniformity(xs) ==
    Q(Sum([i \in 1..Len(xs) |->
              Cardinality({j \in 1..Len(xs) : xs[j] = xs[i]})]),
      Len(xs) * Len(xs))

_calculate_uniformity(gray_array) == Let(Concat(gray_array), Uniformity)

RECURSIVE ISqrtIn(_, _, _)
ISqrtIn(n, lo, hi) ==
    IF lo >= hi THEN lo
    ELSE LET mid == (lo + hi + 1) \div 2
         IN  IF mid * mid <= n THEN ISqrtIn(n, mid, hi) ELSE ISqrtIn(n, lo, mid - 1)

\* floor of the square root
ISqrt(n) == ISqrtIn(n, 0, 46340)

\* gradient magnitudes are kept in fixed point, GradientScale steps per unit
GradientScale == 4

\* twice np.gradient along one axis: central differences inside, one-sided
\* differences at the two ends
Gradient2(xs, j) ==
    IF j = 1 THEN 2 * (xs[2] - xs[1])
    ELSE IF j = Len(xs) THEN 2 * (xs[Len(xs)] - xs[Len(xs) - 1])
    ELSE xs[j + 1] - xs[j - 1]

\* sqrt(grad_x**2 + grad_y**2) of every pixel, in fixed point
EdgeMagnitude(gray_array) ==
    LET rows == 1..Len(gray_array)
        cols == 1..Len(gray_array[1])
        Column(j) == [i \in rows |-> gray_array[i][j]]
        Square(g) == g * g
    IN  Concat([i \in rows |-> [j \in cols |->
            ISqrt((Square(Gradient2(gray_array[i], j))
                   + Square(Gradient2(Column(j), i)))
                  * GradientScale * GradientScale)]])

\* the number of magnitudes above mean + std; the comparison is made on
\* both sides times the number of pixels
EdgePixels(edge_magnitude) ==
    LET size == Len(edge_magnitude)
        Above(excess, variance2) == excess > 0 /\ excess * excess > variance2
    IN  Let(<<Sum(edge_magnitude), Variance2(edge_magnitude)>>,
            LAMBDA stat :
                Cardinality({k \in 1..size :
                    Above(size * edge_magnitude[k] - stat[1], stat[2])}))

EdgeDensity(edge_magnitude) ==
    Q(EdgePixels(edge_magnitude), Len(edge_magnitude))

_calculate_edge_density(gray_array) ==
    Let(EdgeMagnitude(gray_array), EdgeDensity)

\* image.convert('L') as an array
GrayArray(image) ==
    Let(np_array(image), LAMBDA array :
        [i \in 1..Len(array) |-> [j \in 1..Len(array[i]) |-> Luma(array[i][j])]])

TextureStats(gray_array) ==
    [smoothness |-> _calculate_smoothness(gray_array),
     uniformity |-> _calculate_uniformity(gray_array),
     edge_density |-> _calculate_edge_density(gray_array),
     texture_type |-> IF QLt(_calculate_smoothness(gray_array), Q(1, 2))
                      THEN "rough" ELSE "smooth"]

analyze_texture(image) == Let(GrayArray(image), TextureStats)

_assess_image_quality(image) ==
    LET total_pixels == image.width * image.height
    IN  IF total_pixels >= 1000000 THEN "excellent"
        ELSE IF total_pixels >= 500000 THEN "good"
        ELSE IF total_pixels >= 200000 THEN "moderate"
        ELSE "low"

analyze_image_comprehensive(image, enhanced_image) ==
    [resolution |-> <<image.width, image.height>>,
     aspect_ratio |-> aspect_ratio(image.width, image.height),
     quality_score |-> _assess_image_quality(image),
     color_analysis |-> analyze_colors(enhanced_image),
     texture_analysis |-> analyze_texture(enhanced_image),
     total_pixels |-> image.width * image.height,
     enhancement_applied |-> TRUE]

\* sum(confidence_scores.values()) / len(confidence_scores)
RECURSIVE QSum(_, _)
QSum(f, keys) ==
    IF keys = {} THEN QInt(0)
    ELSE LET k == CHOOSE x \in keys : TRUE
         IN  QAdd(f[k], QSum(f, keys \ {k}))

_calculate_overall_confidence(condition_detection) ==
    LET confidence_scores == condition_detection.confidence_scores
        size == Cardinality(DOMAIN confidence_scores)
        total == QSum(confidence_scores, DOMAIN confidence_scores)
    IN  IF condition_detection.findings = <<>>
        THEN "low - no specific conditions detected"
        ELSE IF size > 0
        THEN (IF QGt(total, QInt(70 * size))
              THEN "moderate-high (visual analysis only)"
              ELSE IF QGt(total, QInt(50 * size))
              THEN "moderate (visual analysis only)"
              ELSE "low-moderate (visual analysis only)")
        ELSE "moderate (preliminary analysis)"

\* ------------------------------------------------------------------------
\* _get_detailed_recommendations, _get_next_steps, _get_disclaimer
\*
\* A line of text is a tuple of strings, the pieces of the f-string it is
\* built from; the pictographs and bullets of the source are left out.
\* ------------------------------------------------------------------------
Upper(level) ==
    CASE level = "severe" -> "SEVERE"
      [] level = "moderate" -> "MODERATE"
      [] level = "mild" -> "MILD"
      [] level = "minimal" -> "MINIMAL"

\* condition.replace('_', ' ').title()
Title(condition) ==
    CASE condition = "inflammatory_skin_condition" -> "Inflammatory Skin Condition"
      [] condition = "possible_rash_or_eczema" -> "Possible Rash Or Eczema"
      [] condition = "irregular_surface_texture" -> "Irregular Surface Texture"
      [] condition = "dark_pigmentation" -> "Dark Pigmentation"

Digits(n) ==
    CASE n = 0 -> "0" [] n = 1 -> "1" [] n = 2 -> "2" [] n = 3 -> "3"
      [] n = 4 -> "4"

FindingLines(findings, language) ==
    LET Entry(i) ==
            <<IF language = "hindi"
              THEN <<Digits(i), ". ", Title(findings[i].condition)>>
              ELSE <<Digits(i), ". ", Title(findings[i].condition),
                     " (Confidence: ", findings[i].confidence, ")">>>>
            \o (IF "warning" \in DOMAIN findings[i]
                THEN <<<<"   ", findings[i].warning>>>> ELSE <<>>)
        RECURSIVE From(_)
        From(i) == IF i > Len(findings) THEN <<>> ELSE Entry(i) \o From(i + 1)
    IN  From(1)

ResultLines(findings, severity_level, language) ==
    IF findings = <<>>
    THEN (IF language = "hindi"
          THEN << <<"Koi specific concern detect nahi hua">>,
                  <<"General skin care follow karein">> >>
          ELSE << <<"No specific concerns detected">>,
                  <<"Continue with general skin care">> >>)
    ELSE << <<"Severity Level: ", Upper(severity_level)>>,
            <<Digits(Len(findings)), " potential concern(s) detected">>,
            <<"">> >>
         \o FindingLines(findings, language)
         \o << <<"">> >>

ActionBlock(severity_level, language) ==
    IF language = "hindi"
    THEN (IF severity_level = "severe"
          THEN << <<"URGENT ACTION REQUIRED:">>,
                  <<"Immediately doctor se milein">>,
                  <<"Emergency mein hospital jaayein">>,
                  <<"Self-medication avoid karein">>, <<"">> >>
          ELSE IF severity_level = "moderate"
          THEN << <<"RECOMMENDED ACTIONS:">>,
                  <<"1-2 din mein dermatologist ko dikhayein">>,
                  <<"Affected area ko clean aur dry rakhein">>,
                  <<"Doctor ki advice bina medicine na lein">>, <<"">> >>
          ELSE << <<"GENERAL CARE:">>,
                  <<"Area ko saaf aur sukha rakhein">>,
                  <<"Kharab kapde avoid karein">>,
                  <<"Agar condition worsen ho toh doctor se milein">>, <<"">> >>)
    ELSE (IF severity_level = "severe"
          THEN << <<"URGENT ACTION REQUIRED:">>,
                  <<"Seek immediate medical attention">>,
                  <<"Visit emergency if symptoms worsen">>,
                  <<"Avoid self-medication">>, <<"">> >>
          ELSE IF severity_level = "moderate"
          THEN << <<"RECOMMENDED ACTIONS:">>,
                  <<"Consult a dermatologist within 1-2 days">>,
                  <<"Keep the affected area clean and dry">>,
                  <<"Avoid applying anything without medical advice">>, <<"">> >>
          ELSE << <<"GENERAL CARE:">>,
                  <<"Keep area clean and dry">>,
                  <<"Avoid tight or irritating clothing">>,
                  <<"Monitor for changes and consult if worsens">>, <<"">> >>)

\* the default of the lookup, whatever the dict holds
SeverityLevelDefault(severity) == "minimal"

\* severity.get('level', 'minimal')
SeverityLevelOf(severity) ==
    IF "level" \in DOMAIN severity THEN severity.level ELSE "minimal"

_get_detailed_recommendations(condition_detection, severity, language) ==
    << <<"ANALYSIS RESULTS:">>, <<"">> >>
    \o ResultLines(condition_detection.findings, SeverityLevelOf(severity), language)
    \o ActionBlock(SeverityLevelOf(severity), language)

\* the urgency that follows the severity level
UrgencyFromLevel(severity) ==
    IF severity.level = "severe" THEN "high"
    ELSE IF severity.level = "moderate" THEN "medium"
    ELSE "low"

\* severity.get('urgency', 'routine')
Urgency(severity) ==
    IF "urgency" \in DOMAIN severity THEN severity.urgency ELSE "routine"

_get_next_steps(severity, language) ==
    LET urgency == Urgency(severity)
    IN  IF language = "hindi"
        THEN (IF urgency = "high"
              THEN <<"1. Turant doctor se appointment lein",
                     "2. In results ko doctor ko dikhayein",
                     "3. Koi bhi changes monitor karein",
                     "4. Emergency mein 102 ya nearest hospital jaayein">>
              ELSE IF urgency = "medium"
              THEN <<"1. 24-48 ghante mein dermatologist se appointment lein",
                     "2. Image aur analysis report save karein",
                     "3. Daily changes track karein",
                     "4. Agar worsen ho toh immediately help lein">>
              ELSE <<"1. General skin care routine follow karein",
                     "2. Changes monitor karein",
                     "3. Agar 3-4 din mein theek na ho toh doctor se milein",
                     "4. Affected area ko protect karein">>)
        ELSE (IF urgency = "high"
              THEN <<"1. Schedule immediate doctor appointment",
                     "2. Show these results to your doctor",
                     "3. Monitor for any changes",
                     "4. Go to emergency if symptoms worsen">>
              ELSE IF urgency = "medium"
              THEN <<"1. Schedule dermatologist appointment within 24-48 hours",
                     "2. Save this image and analysis report",
                     "3. Track daily changes",
                     "4. Seek immediate help if condition worsens">>
              ELSE <<"1. Continue general skin care routine",
                     "2. Monitor for changes",
                     "3. Consult doctor if no improvement in 3-4 days",
                     "4. Protect the affected area">>)

HindiDisclaimer ==
    "IMPORTANT DISCLAIMER: Yeh automated image analysis hai aur professional medical diagnosis ka replacement NAHI hai."

EnglishDisclaimer ==
    "IMPORTANT DISCLAIMER: This is an automated image analysis and is NOT a replacement for professional medical diagnosis."

\* disclaimers.get(language, '')
DisclaimerKnownOnly(language) ==
    IF language = "hindi" THEN HindiDisclaimer
    ELSE IF language = "english" THEN EnglishDisclaimer
    ELSE ""

_get_disclaimer(language) ==
    IF language = "hindi" THEN HindiDisclaimer ELSE EnglishDisclaimer

\* ------------------------------------------------------------------------
\* analyze_skin_condition
\*
\* The stages of the try block run in TryStages order.  fault names the
\* stage in which an unexpected exception (a MemoryError, say) is raised, or
\* "none"; decoding a truncated body raises in "preprocess".
\* ------------------------------------------------------------------------
TryStages ==
    <<"preprocess", "analyze", "detect", "severity", "recommend", "report",
      "history">>

\* the stages that can raise: those before the report is complete
Faults == {"none"} \cup {TryStages[i] : i \in 1..6}

StageIndex(stage) == CHOOSE i \in DOMAIN TryStages : TryStages[i] = stage

\* the first stage of the try block that raises, or "none"
RaisingStage(image_data, fault) ==
    IF DecodeRaises(image_data) THEN "preprocess" ELSE fault

ExceptionText(image_data, stage) ==
    IF stage = "preprocess" /\ DecodeRaises(image_data)
    THEN "image file is truncated"
    ELSE "MemoryError"

\* a failure that keeps what was built of the report
FailurePartial(message) ==
    [success |-> FALSE, error |-> message, analysis |-> [metadata |-> None]]

Failure(message) == [success |-> FALSE, error |-> message, analysis |-> None]

Success(analysis) == [success |-> TRUE, error |-> None, analysis |-> analysis]

\* the report with its confidence label put into the requested language
BuildAnalysisLocalised(metadata, comprehensive_analysis, condition_detection, severity, recommendations, language) ==
    [metadata |-> metadata,
     image_quality |-> comprehensive_analysis.quality_score,
     resolution |-> comprehensive_analysis.resolution,
     visual_analysis |->
        [color_metrics |->
            [mean_rgb |-> comprehensive_analysis.color_analysis.mean_rgb,
             redness_score |-> comprehensive_analysis.color_analysis.redness_score,
             dominant_color |-> comprehensive_analysis.color_analysis.dominant_color,
             inflammation |->
                 comprehensive_analysis.color_analysis.inflammation_indicators],
         texture_metrics |->
            [smoothness |-> comprehensive_analysis.texture_analysis.smoothness,
             texture_type |-> comprehensive_analysis.texture_analysis.texture_type,
             edge_density |-> comprehensive_analysis.texture_analysis.edge_density]],
     condition_detection |-> condition_detection,
     severity_assessment |-> severity,
     recommendations |-> recommendations,
     confidence_level |->
        IF language = "hindi" THEN "madhyam"
        ELSE _calculate_overall_confidence(condition_detection),
     disclaimer |-> _get_disclaimer(language),
     next_steps |-> _get_next_steps(severity, language)]

BuildAnalysis(metadata, comprehensive_analysis, condition_detection, severity, recommendations, language) ==
    [metadata |-> metadata,
     image_quality |-> comprehensive_analysis.quality_score,
     resolution |-> comprehensive_analysis.resolution,
     visual_analysis |->
        [color_metrics |->
            [mean_rgb |-> comprehensive_analysis.color_analysis.mean_rgb,
             redness_score |-> comprehensive_analysis.color_analysis.redness_score,
             dominant_color |-> comprehensive_analysis.color_analysis.dominant_color,
             inflammation |->
                 comprehensive_analysis.color_analysis.inflammation_indicators],
         texture_metrics |->
            [smoothness |-> comprehensive_analysis.texture_analysis.smoothness,
             texture_type |-> comprehensive_analysis.texture_analysis.texture_type,
             edge_density |-> comprehensive_analysis.texture_analysis.edge_density]],
     condition_detection |-> condition_detection,
     severity_assessment |-> severity,
     recommendations |-> recommendations,
     confidence_level |-> _calculate_overall_confidence(condition_detection),
     disclaimer |-> _get_disclaimer(language),
     next_steps |-> _get_next_steps(severity, language)]

HistoryRecord(metadata, condition_detection, severity) ==
    [image_hash |-> metadata.image_hash,
     findings |-> condition_detection.findings,
     severity |-> severity]

\* the append placed before the report is built
AppendedRecordEarly(raising, record) ==
    IF raising \in {"none", "report"} THEN record ELSE None

\* the append is the last statement of the try block before the return: it
\* is reached only when no stage raised
AppendedRecord(raising, record) ==
    IF raising = "none" THEN record ELSE None

\* the end of the try block: the stages run, what is returned or raised,
\* and the record appended to analysis_history (None: no append)
TryOutcome(image_data, metadata, language, raising, comprehensive_analysis, condition_detection, severity) ==
    [stages |-> IF raising # "none"
                THEN SubSeq(TryStages, 1, StageIndex(raising)) ELSE TryStages,
     outcome |->
        IF raising # "none"
        THEN Raise(ExceptionText(image_data, raising))
        ELSE Return(Success(BuildAnalysis(
                 metadata, comprehensive_analysis, condition_detection, severity,
                 _get_detailed_recommendations(condition_detection, severity,
                                               language),
                 language))),
     record |-> AppendedRecord(raising,
                    HistoryRecord(metadata, condition_detection, severity))]

\* the try block on a validated buffer
AnalyzeTry(image_data, metadata, language, fault) ==
    Let(preprocess_image(image_data), LAMBDA images :
    Let(analyze_image_comprehensive(images[1], images[2]),
        LAMBDA comprehensive_analysis :
    Let(detect_skin_condition_type(comprehensive_analysis.color_analysis,
                                   comprehensive_analysis.texture_analysis),
        LAMBDA condition_detection :
    Let(_assess_severity(comprehensive_analysis.color_analysis,
                         comprehensive_analysis.texture_analysis),
        LAMBDA severity :
    TryOutcome(image_data, metadata, language,
               RaisingStage(image_data, fault), comprehensive_analysis,
               condition_detection, severity)))))

\* the except clause of analyze_skin_condition
CatchProcessing(try) ==
    IF try.outcome.raises
    THEN [try EXCEPT !.outcome =
             Return(Failure(<<"Error processing image: ", try.outcome.text>>))]
    ELSE try

analyze_skin_condition(image_data, language, fault) ==
    LET validation == validate_image(image_data)
    IN  IF validation.raises
        THEN [stages |-> <<"validate">>, outcome |-> validation, record |-> None]
        ELSE IF ~validation.value[1]
        THEN [stages |-> <<"validate">>,
              outcome |-> Return(Failure(validation.value[2])),
              record |-> None]
        ELSE Let(AnalyzeTry(image_data, validation.value[3], language, fault),
                 LAMBDA try :
                     [CatchProcessing(try) EXCEPT
                         !.stages = <<"validate">> \o try.stages])

\* insert(0, record) in place of append(record)
StoreInHistoryFront(history, record) == <<record>> \o history

\* self.analysis_history.append(record)
StoreInHistory(history, record) == Append(history, record)

\* ------------------------------------------------------------------------
\* compare_with_history
\* ------------------------------------------------------------------------
\* the loop without its fingerprint test
FindPreviousAny(history, current_image_hash, i) ==
    IF i < 1 THEN 0 ELSE i

\* for i in range(len - 2, -1, -1): the index of the first record, going
\* down from i, whose hash differs; 0 when there is none
RECURSIVE FindPrevious(_, _, _)
FindPrevious(history, current_image_hash, i) ==
    IF i < 1 THEN 0
    ELSE IF history[i].image_hash # current_image_hash THEN i
    ELSE FindPrevious(history, current_image_hash, i - 1)

\* the search starts at the last record
SearchStartLast(history) == Len(history)

\* range(len(self.analysis_history) - 2, -1, -1) starts one record before
\* the last
SearchStart(history) == Len(history) - 1

\* >= and <= in place of > and <
TrendInclusive(change) ==
    IF change >= 1 THEN "worsening"
    ELSE IF change <= -1 THEN "improving"
    ELSE "stable"

Trend(change) ==
    IF change > 1 THEN "worsening"
    ELSE IF change < -1 THEN "improving"
    ELSE "stable"

_get_trend_recommendation(trend) ==
    IF trend = "worsening"
    THEN "Condition appears to be worsening. Seek medical attention immediately."
    ELSE IF trend = "improving"
    THEN "Condition shows signs of improvement. Continue current treatment."
    ELSE "Condition appears stable. Continue monitoring."

\* analysis_history[0] in place of analysis_history[-1]
CurrentRecordFirst(history) == history[1]

\* current = self.analysis_history[-1]
CurrentRecord(history) == history[Len(history)]

compare_with_history(history, current_image_hash) ==
    IF Len(history) < 2 THEN None
    ELSE LET p == FindPrevious(history, current_image_hash, SearchStart(history))
             current == CurrentRecord(history)
             change == current.severity.score - history[p].severity.score
         IN  IF p = 0 THEN None
             ELSE [trend |-> Trend(change),
                   severity_change |-> change,
                   recommendation |-> _get_trend_recommendation(Trend(change))]

\* ------------------------------------------------------------------------
\* generate_analysis_report
\*
\* The report is the sequence of the lines that "\n".join puts together.  A
\* number formatted with a fixed number of decimals is the record of its
\* rounded digits.
\* ------------------------------------------------------------------------
RuleLine == "=================================================="

UpperUrgency(urgency) ==
    CASE urgency = "high" -> "HIGH"
      [] urgency = "medium" -> "MEDIUM"
      [] urgency = "low" -> "LOW"
      [] urgency = "routine" -> "ROUTINE"

Power10(places) == CASE places = 1 -> 10 [] places = 2 -> 100 [] places = 3 -> 1000

\* f"{q:.<places>f}" of a rational that is not negative
Fixed(q, places) ==
    [digits |-> (2 * q.n * Power10(places) + q.d) \div (2 * q.d),
     places |-> places]

\* the hindi and the english branch of the source hold the same lines; the
\* timestamp is not part of the model
ReportHeader(analysis) ==
    << <<RuleLine>>, <<"MEDICAL IMAGE ANALYSIS REPORT">>, <<RuleLine>>, <<"">>,
       <<"Analysis Time: ", "analysis_timestamp">>,
       <<"Resolution: ", analysis.resolution>>,
       <<"Quality: ", analysis.image_quality>>,
       <<"">> >>

ReportVisual(analysis) ==
    IF "visual_analysis" \notin DOMAIN analysis THEN <<>>
    ELSE LET color == analysis.visual_analysis.color_metrics
             texture == analysis.visual_analysis.texture_metrics
         IN  << <<"VISUAL ANALYSIS:">>, <<"">>, <<"Color Metrics:">>,
                <<"  Redness Score: ", Fixed(color.redness_score, 1), "/100">>,
                <<"  Dominant Color: RGB", color.dominant_color>>,
                <<"">>, <<"Texture Metrics:">>,
                <<"  Texture Type: ", texture.texture_type>>,
                <<"  Smoothness: ", Fixed(texture.smoothness, 2)>>,
                <<"  Edge Density: ", Fixed(texture.edge_density, 3)>>,
                <<"">> >>

ReportFinding(finding, i) ==
    << <<"  ", Digits(i), ". ", Title(finding.condition)>>,
       <<"     Confidence: ", finding.confidence>> >>
    \o (IF "warning" \in DOMAIN finding
        THEN << <<"     ", finding.warning>> >> ELSE <<>>)
    \o << <<"">> >>

RECURSIVE ReportFindingsFrom(_, _)
ReportFindingsFrom(findings, i) ==
    IF i > Len(findings) THEN <<>>
    ELSE ReportFinding(findings[i], i) \o ReportFindingsFrom(findings, i + 1)

ReportFindings(analysis) ==
    IF "condition_detection" \notin DOMAIN analysis THEN <<>>
    ELSE << <<"FINDINGS:">>, <<"">> >>
         \o (IF analysis.condition_detection.findings # <<>>
             THEN ReportFindingsFrom(analysis.condition_detection.findings, 1)
             ELSE << <<"  No specific conditions detected">>, <<"">> >>)

ReportSeverity(analysis) ==
    IF "severity_assessment" \notin DOMAIN analysis THEN <<>>
    ELSE LET severity == analysis.severity_assessment
         IN  << <<"SEVERITY ASSESSMENT:">>,
                <<"  Level: ", Upper(severity.level)>>,
                <<"  Urgency: ", UpperUrgency(severity.urgency)>>,
                <<"  Score: ", severity.score, "/", severity.max_score>>,
                <<"  ", severity.description>>,
                <<"">> >>

ReportRecommendations(analysis) ==
    IF "recommendations" \in DOMAIN analysis THEN analysis.recommendations ELSE <<>>

ReportNextSteps(analysis) ==
    IF "next_steps" \notin DOMAIN analysis THEN <<>>
    ELSE << <<"">>, <<"NEXT STEPS:">> >>
         \o [i \in 1..Len(analysis.next_steps) |-> <<"  ", analysis.next_steps[i]>>]
         \o << <<"">> >>

ReportDisclaimer(analysis) ==
    IF "disclaimer" \in DOMAIN analysis
    THEN << <<"">>, <<analysis.disclaimer>> >> ELSE <<>>

ReportFooter == << <<"">>, <<RuleLine>>, <<"End of Report">>, <<RuleLine>> >>

generate_analysis_report(analysis, language) ==
    IF analysis = None THEN << <<"No analysis available">> >>
    ELSE ReportHeader(analysis) \o ReportVisual(analysis)
         \o ReportFindings(analysis) \o ReportSeverity(analysis)
         \o ReportRecommendations(analysis) \o ReportNextSteps(analysis)
         \o ReportDisclaimer(analysis) \o ReportFooter

\* ------------------------------------------------------------------------
\* SwasthyaGuide.process_image_message (src/src/chatbot.py)
\*
\* A caption is the record of whether it is empty and of the language
\* detect_language finds in it.  The Devanagari text of the source is
\* transliterated; conversation logging to the database is inside a try
\* block of its own and is left out.
\* ------------------------------------------------------------------------
Caption(empty, detected) == [empty |-> empty, detect_language |-> detected]

\* the language tag the analyzer is called with
ReplyLanguage(caption) ==
    LET language == IF caption.empty THEN "hindi" ELSE caption.detect_language
    IN  IF language = "english" THEN "hindi" ELSE language

ErrorResponse(language, error) ==
    IF language = "hindi"
    THEN << <<"Chhavi truti: ">> \o error, <<"">>, <<"Kripaya:">>,
            <<"Ek spasht photo bhejen">>, <<"Achchhi roshni mein photo len">>,
            <<"10MB se chhoti chhavi bhejen">> >>
    ELSE << <<"Image Error: ">> \o error, <<"">>, <<"Please:">>,
            <<"Send a clear photo">>, <<"Take photo in good lighting">>,
            <<"Send image smaller than 10MB">> >>

\* str.strip() on the lines of a text: the blank lines at both ends go
Strip(lines) ==
    LET kept == {i \in 1..Len(lines) : lines[i] # <<"">>}
        first == CHOOSE i \in kept : \A j \in kept : i <= j
        last == CHOOSE i \in kept : \A j \in kept : j <= i
    IN  IF kept = {} THEN <<>> ELSE SubSeq(lines, first, last)

SuccessResponse(analysis) ==
    Strip(<< <<"">>, <<"Image analysis complete!">>, <<"">> >>
          \o analysis.recommendations
          \o << <<"">>, <<analysis.disclaimer>>, <<"">>,
                <<"Kuch aur puchhna chahenge? / Any other questions?">>, <<"">> >>)

\* done is what analyze_skin_condition did with the buffer
ImageResponse(language, done) ==
    IF done.outcome.raises THEN done.outcome
    ELSE IF ~done.outcome.value.success
    THEN Return(ErrorResponse(language, done.outcome.value.error))
    ELSE Return(SuccessResponse(done.outcome.value.analysis))

\* the language stored in user_context, what the analyzer did, the reply
process_image_message(image_data, caption, fault) ==
    Let(analyze_skin_condition(image_data, ReplyLanguage(caption), fault),
        LAMBDA done :
            [language |-> ReplyLanguage(caption),
             done |-> done,
             response |-> ImageResponse(ReplyLanguage(caption), done)])

\* ------------------------------------------------------------------------
\* The buffers, language tags and faults the methods are called with
\* ------------------------------------------------------------------------
MaxHistory == 3

Languages == {"english", "hindi", "tamil"}

MiB == 1024 * 1024

Catalogue ==
    {Buffer(1, 5000, "JPEG", 200, 200, "absent", "complete", <<128, 128, 128>>),
     Buffer(2, 5000, "JPEG", 200, 200, "absent", "complete", <<255, 100, 100>>),
     Buffer(3, 3 * MiB, "WEBP", 2048, 1024, "readable", "complete", <<200, 190, 120>>),
     Buffer(4, 900, "JPEG", 200, 200, "absent", "complete", <<128, 128, 128>>),
     Buffer(5, 11 * MiB, "PNG", 200, 200, "absent", "complete", <<128, 128, 128>>),
     Buffer(6, 5000, "GIF", 200, 200, "absent", "complete", <<128, 128, 128>>),
     Buffer(7, 5000, "unidentified", 0, 0, "absent", "truncated", <<0, 0, 0>>),
     Buffer(8, 5000, "PNG", 90, 90, "absent", "complete", <<128, 128, 128>>),
     Buffer(9, 5000, "JPEG", 200, 200, "corrupt", "complete", <<255, 100, 100>>),
     Buffer(10, 5000, "JPEG", 200, 200, "absent", "truncated", <<255, 100, 100>>)}

\* the fingerprints compare_with_history is called with: those of the
\* buffers that validate, and one that is never recorded
Hashes == {md5(b) : b \in {c \in Catalogue : c.id <= 4}}

\* an exception can only be raised in a stage of the try block when the
\* try block is entered
FaultsFor(image_data) ==
    IF validate_image(image_data).raises \/ ~validate_image(image_data).value[1]
    THEN {"none"} ELSE Faults

\* ------------------------------------------------------------------------
\* Calls of one method on a new analyzer, on bounded inputs
\* ------------------------------------------------------------------------
Pending == [pending |-> TRUE]

\* scores in tenths, on and around every threshold the code compares with
RednessInputs == {0, 200, 201, 300, 301, 400, 401, 600, 601, 1000}
PercentInputs == {0, 150, 151, 300, 301, 400, 401, 500, 501, 1000}
\* edge densities in thousandths
EdgeInputs == {0, 150, 151, 200, 201}
TextureTypeInputs == {"rough", "smooth"}
DominantInputs ==
    {<<128, 128, 128>>, <<59, 59, 59>>, <<79, 79, 21>>, <<79, 79, 22>>,
     <<80, 40, 40>>}

InflammationBundle(pct) ==
    [red_dominant_percentage |-> pct,
     likely_inflamed |-> QGt(pct, QInt(30)),
     severity_estimate |-> IF QGt(pct, QInt(50)) THEN "high"
                           ELSE IF QGt(pct, QInt(30)) THEN "medium"
                           ELSE "low"]

ColorInputs ==
    {[redness_score |-> Q(r, 10),
      inflammation_indicators |-> InflammationBundle(Q(p, 10)),
      dominant_color |-> dc] :
        r \in RednessInputs, p \in PercentInputs, dc \in DominantInputs}

TextureInputs ==
    {[edge_density |-> Q(e, 1000), texture_type |-> tt] :
        e \in EdgeInputs, tt \in TextureTypeInputs}

LengthInputs ==
    {min_image_size - 1, min_image_size, 5000, max_image_size,
     max_image_size + 1}
FormatInputs == {"JPEG", "PNG", "WEBP", "GIF", "MPO", "unidentified"}
DimensionInputs == {99, 100, 200}
ExifInputs == {"absent", "readable", "corrupt"}
BodyInputs == {"complete", "truncated"}
Gray == <<128, 128, 128>>

BufferInputs ==
    {Buffer(0, n, f, w, h, x, b, Gray) :
        n \in LengthInputs, f \in FormatInputs, w \in DimensionInputs,
        h \in DimensionInputs, x \in ExifInputs, b \in BodyInputs}

\* severity dicts: every level with every urgency, and without the key
LevelInputs == {"mild", "moderate", "severe"}
UrgencyInputs == {"high", "medium", "low", "routine"}

SeverityInputs ==
    {[level |-> v, urgency |-> u] : v \in LevelInputs, u \in UrgencyInputs}
    \cup {[level |-> v] : v \in LevelInputs}

\* pixel arrays: black, white, pure red, red over a trace of green and blue,
\* cyan, a red whose g + 20 and b + 20 wrap around in uint8, and a red over
\* some green and no blue
MaxPixels == 4

PixelInputs ==
    {<<0, 0, 0>>, <<255, 255, 255>>, <<255, 0, 0>>, <<255, 1, 1>>,
     <<0, 255, 255>>, <<255, 240, 240>>, <<255, 40, 0>>}

PixelArrayInputs == [1..MaxPixels -> PixelInputs]

\* grayscale arrays: a darker level, and two levels a step on either side
\* of 128
GraySide == 2

GrayInputs == {120, 127, 129}

GrayArrayInputs == [1..GraySide -> [1..GraySide -> GrayInputs]]

\* three more images: one of moderate and one of mild severity, and a dark
\* one
TierImages ==
    {Buffer(11, 5000, "JPEG", 200, 200, "absent", "complete", <<200, 150, 150>>),
     Buffer(12, 5000, "JPEG", 200, 200, "absent", "complete", <<230, 212, 60>>),
     Buffer(13, 5000, "JPEG", 200, 200, "absent", "complete", <<50, 50, 50>>)}

\* analyze_skin_condition on every buffer of the catalogue and on those two
AnalyzeCalls ==
    UNION {{[fn |-> "analyze_skin_condition", image_data |-> b, language |-> l,
             fault |-> f] : l \in Languages, f \in FaultsFor(b)} :
           b \in Catalogue \cup TierImages}

\* None, and the analyses of the buffers that analyze_skin_condition accepts
AnalysisInputs ==
    {None} \cup
    {a.outcome.value.analysis :
        a \in {d \in {analyze_skin_condition(b, l, "none") :
                        b \in Catalogue, l \in Languages} :
                  d.outcome.value.success}}

\* no caption, and captions in which detect_language finds a language
CaptionInputs ==
    {Caption(TRUE, "hindi")}
    \cup {Caption(FALSE, l) : l \in {"hindi", "english", "tamil", "marathi"}}

ImageMessageCalls ==
    UNION {{[fn |-> "process_image_message", image_data |-> b, caption |-> c,
             fault |-> f] : c \in CaptionInputs, f \in FaultsFor(b)} :
           b \in Catalogue}

PureCalls ==
    {[fn |-> "_assess_severity", color |-> c, texture |-> t] :
        c \in ColorInputs, t \in TextureInputs}
    \cup {[fn |-> "detect_skin_condition_type", color |-> c, texture |-> t] :
        c \in ColorInputs, t \in TextureInputs}
    \cup {[fn |-> "validate_image", image_data |-> b] : b \in BufferInputs}
    \cup {[fn |-> "analyze_colors", pixels |-> p] : p \in PixelArrayInputs}
    \cup AnalyzeCalls
    \cup {[fn |-> "generate_analysis_report", analysis |-> a, language |-> l] :
            a \in AnalysisInputs, l \in Languages}
    \cup ImageMessageCalls
    \cup {[fn |-> "_get_next_steps", severity |-> v, language |-> l] :
            v \in SeverityInputs, l \in Languages}
    \cup {[fn |-> "analyze_texture", gray_array |-> a] : a \in GrayArrayInputs}

NoCall == [fn |-> "none"]

NotCompared == [called |-> FALSE]

\* SwasthyaGuide.__init__: no language detected yet, nothing asked
NewContext ==
    [language |-> None, location |-> None, symptoms |-> <<>>,
     emergency_detected |-> FALSE, waiting_for_location |-> FALSE,
     last_detected_symptoms |-> <<>>]

\* the request threads of the server that serve one sender
MaxThreads == 2

Threads == 1..MaxThreads

\* no request is in flight
NoThreads == [t \in Threads |-> [pc |-> "idle"]]

\* an empty dict
NoTable == [sender \in {} |-> None]

MainIdle ==
    /\ analysis_history = <<>>
    /\ result = None
    /\ stages = <<>>
    /\ successes = 0
    /\ comparison = NotCompared
    /\ user_context = NewContext
    /\ threads = NoThreads
    /\ user_sessions = NoTable
    /\ session_timestamps = NoTable
    /\ constructed = 0
    /\ clock = 0

PureInit ==
    /\ MainIdle
    /\ call \in PureCalls
    /\ ret = Pending

CallAssessSeverity ==
    /\ call.fn = "_assess_severity"
    /\ ret = Pending
    /\ ret' = _assess_severity(call.color, call.texture)
    /\ UNCHANGED <<analysis_history, result, stages, successes, comparison, call>>
    /\ UNCHANGED <<user_context, threads, sessions>>

CallDetectSkinConditionType ==
    /\ call.fn = "detect_skin_condition_type"
    /\ ret = Pending
    /\ ret' = detect_skin_condition_type(call.color, call.texture)
    /\ UNCHANGED <<analysis_history, result, stages, successes, comparison, call>>
    /\ UNCHANGED <<user_context, threads, sessions>>

CallValidateImage ==
    /\ call.fn = "validate_image"
    /\ ret = Pending
    /\ ret' = validate_image(call.image_data)
    /\ UNCHANGED <<analysis_history, result, stages, successes, comparison, call>>
    /\ UNCHANGED <<user_context, threads, sessions>>

\* analyze_colors on an image whose pixels are call.pixels
CallAnalyzeColors ==
    /\ call.fn = "analyze_colors"
    /\ ret = Pending
    /\ ret' = ColorStats(call.pixels)
    /\ UNCHANGED <<analysis_history, result, stages, successes, comparison, call>>
    /\ UNCHANGED <<user_context, threads, sessions>>

\* what analyze_skin_condition leaves behind: the record it appended, the
\* result it returned, the stages it ran
RunAnalysis(done) ==
    /\ analysis_history' =
           IF done.record = None THEN analysis_history
           ELSE StoreInHistory(analysis_history, done.record)
    /\ result' = done.outcome
    /\ stages' = done.stages
    /\ successes' =
           IF ~done.outcome.raises /\ done.outcome.value.success
           THEN successes + 1 ELSE successes

CallAnalyzeSkinCondition ==
    /\ call.fn = "analyze_skin_condition"
    /\ ret = Pending
    /\ \E done \in {analyze_skin_condition(call.image_data, call.language, call.fault)} :
           /\ RunAnalysis(done)
           /\ ret' = done.outcome
    /\ UNCHANGED <<comparison, call, user_context, threads, sessions>>

CallGenerateAnalysisReport ==
    /\ call.fn = "generate_analysis_report"
    /\ ret = Pending
    /\ ret' = Return(generate_analysis_report(call.analysis, call.language))
    /\ UNCHANGED <<analysis_history, result, stages, successes, comparison, call>>
    /\ UNCHANGED <<user_context, threads, sessions>>

CallProcessImageMessage ==
    /\ call.fn = "process_image_message"
    /\ ret = Pending
    /\ \E reply \in {process_image_message(call.image_data, call.caption, call.fault)} :
           /\ user_context' = [user_context EXCEPT !.language = Str(reply.language)]
           /\ RunAnalysis(reply.done)
           /\ ret' = reply.response
    /\ UNCHANGED <<comparison, call, threads, sessions>>

CallGetNextSteps ==
    /\ call.fn = "_get_next_steps"
    /\ ret = Pending
    /\ ret' = Return(_get_next_steps(call.severity, call.language))
    /\ UNCHANGED <<analysis_history, result, stages, successes, comparison, call>>
    /\ UNCHANGED <<user_context, threads, sessions>>

\* analyze_texture on an image whose grayscale array is call.gray_array
CallAnalyzeTexture ==
    /\ call.fn = "analyze_texture"
    /\ ret = Pending
    /\ ret' = TextureStats(call.gray_array)
    /\ UNCHANGED <<analysis_history, result, stages, successes, comparison, call>>
    /\ UNCHANGED <<user_context, threads, sessions>>

PureNext ==
    \/ CallAssessSeverity
    \/ CallDetectSkinConditionType
    \/ CallValidateImage
    \/ CallAnalyzeColors
    \/ CallAnalyzeSkinCondition
    \/ CallGenerateAnalysisReport
    \/ CallProcessImageMessage
    \/ CallGetNextSteps
    \/ CallAnalyzeTexture

PureSpec == PureInit /\ [][PureNext]_vars

Returned(fn) == call.fn = fn /\ ret # Pending

\* ------------------------------------------------------------------------
\* One analyzer: analyze_skin_condition and compare_with_history called in
\* any order on buffers of a catalogue
\* ------------------------------------------------------------------------
Init ==
    /\ MainIdle
    /\ call = NoCall
    /\ ret = Pending

\* a pixel dimmed by 60 levels per record of the history
Dimmed(history, fill) ==
    [c \in 1..3 |-> Max2(0, fill[c] - 60 * Len(history))]

\* an analyzer whose pipeline reads analysis_history: the pixels it analyses
\* depend on the number of records
AnalyzeSkinConditionAdaptive ==
    \E image_data \in Catalogue, language \in Languages :
      \E fault \in FaultsFor(image_data) :
        \E done \in {analyze_skin_condition(
                         [image_data EXCEPT
                             !.fill = Dimmed(analysis_history, image_data.fill)],
                         language, fault)} :
            /\ done.record = None \/ Len(analysis_history) < MaxHistory
            /\ RunAnalysis(done)
            /\ comparison' = NotCompared
            /\ UNCHANGED <<call, ret, user_context, threads, sessions>>

\* The value of a call depends on its arguments only, so TLC computes it once
\* and hands the same value to all its workers; comparing the value with
\* itself puts it into normal form before that.
AnalyzeSkinCondition ==
    \E image_data \in Catalogue, language \in Languages :
      \E fault \in FaultsFor(image_data) :
        \E done \in {d \in {analyze_skin_condition(image_data, language, fault)} :
                         d = d} :
            /\ done.record = None \/ Len(analysis_history) < MaxHistory
            /\ analysis_history' =
                   IF done.record = None THEN analysis_history
                   ELSE StoreInHistory(analysis_history, done.record)
            /\ result' = done.outcome
            /\ stages' = done.stages
            /\ successes' =
                   IF ~done.outcome.raises /\ done.outcome.value.success
                   THEN successes + 1 ELSE successes
            /\ comparison' = NotCompared
            /\ UNCHANGED <<call, ret, user_context, threads, sessions>>

CompareWithHistory ==
    \E current_image_hash \in Hashes :
        /\ comparison' =
               [called |-> TRUE,
                current_image_hash |-> current_image_hash,
                ret |-> compare_with_history(analysis_history, current_image_hash)]
        /\ UNCHANGED <<analysis_history, result, stages, successes, call, ret>>
        /\ UNCHANGED <<user_context, threads, sessions>>

Next ==
    \/ AnalyzeSkinCondition
    \/ CompareWithHistory

Spec == Init /\ [][Next]_vars

\* ------------------------------------------------------------------------
\* One session under the threaded server: every request of a sender runs
\* whatsapp_webhook in a thread of its own, get_or_create_session hands all
\* of them the same SwasthyaGuide and so the same ImageAnalyzer, and nothing
\* in app.py, chatbot.py or image_analyzer.py takes a lock.  A thread can be
\* switched out between any two statements, and between the evaluation of
\* the record and the call of list.append.
\*
\*   compared  compare_with_history has returned
\*   idle      no request
\*   analysed  the stages before the append have run (local values only)
\*   append    inside the append statement: the record is built, list.append
\*             has not run yet
\*   return    the statement after the append
\* ------------------------------------------------------------------------
\* the images the concurrent requests carry, all sent without a caption
ThreadImages == {b \in Catalogue : b.id \in {1, 2, 4}}

NoCaption == Caption(TRUE, "hindi")

\* records that threads in flight are still to append
InFlight == Cardinality({t \in Threads : threads[t].pc \in {"analysed", "append"}})

ThreadAnalyze(t) ==
    /\ threads[t].pc = "idle"
    /\ \E image_data \in ThreadImages :
         \E reply \in {process_image_message(image_data, NoCaption, "none")} :
           /\ reply.done.record = None
                  \/ Len(analysis_history) + InFlight < MaxHistory
           /\ user_context' = [user_context EXCEPT !.language = Str(reply.language)]
           /\ threads' = [threads EXCEPT ![t] =
                  [pc |-> IF reply.done.record = None THEN "return" ELSE "analysed",
                   reply |-> reply]]
    /\ UNCHANGED <<analysis_history, result, stages, successes, comparison, call, ret>>
    /\ UNCHANGED sessions

\* the record of the append statement is evaluated
ThreadEnterAppend(t) ==
    /\ threads[t].pc = "analysed"
    /\ threads' = [threads EXCEPT ![t].pc = "append"]
    /\ UNCHANGED <<analysis_history, result, stages, successes, comparison, call, ret>>
    /\ UNCHANGED <<user_context, sessions>>

\* list.append runs
ThreadAppend(t) ==
    /\ threads[t].pc = "append"
    /\ analysis_history' =
           StoreInHistory(analysis_history, threads[t].reply.done.record)
    /\ threads' = [threads EXCEPT ![t].pc = "return"]
    /\ UNCHANGED <<result, stages, successes, comparison, call, ret, user_context, sessions>>

\* the request goes on to compare_with_history with the fingerprint of the
\* image it has just analysed; current is what the method reads as
\* self.analysis_history[-1]
ThreadCompare(t) ==
    /\ threads[t].pc = "return"
    /\ threads[t].reply.done.record # None
    /\ \E current_image_hash \in {threads[t].reply.done.record.image_hash} :
           /\ comparison' =
                  [called |-> TRUE,
                   current_image_hash |-> current_image_hash,
                   ret |-> compare_with_history(analysis_history, current_image_hash)]
           /\ threads' = [threads EXCEPT ![t] =
                  [pc |-> "compared",
                   reply |-> threads[t].reply,
                   compared |-> compare_with_history(analysis_history,
                                                     current_image_hash),
                   current |-> CurrentRecord(analysis_history)]]
    /\ UNCHANGED <<analysis_history, result, stages, successes, call, ret>>
    /\ UNCHANGED <<user_context, sessions>>

\* the result goes back to process_image_message, the reply to the sender
ThreadReturn(t) ==
    /\ threads[t].pc \in {"return", "compared"}
    /\ result' = threads[t].reply.done.outcome
    /\ stages' = threads[t].reply.done.stages
    /\ successes' = IF threads[t].reply.done.record = None
                     THEN successes ELSE successes + 1
    /\ threads' = [threads EXCEPT ![t] = [pc |-> "idle"]]
    /\ UNCHANGED <<analysis_history, comparison, call, ret, user_context, sessions>>

ThreadNext ==
    \E t \in Threads :
        \/ ThreadAnalyze(t)
        \/ ThreadEnterAppend(t)
        \/ ThreadAppend(t)
        \/ ThreadCompare(t)
        \/ ThreadReturn(t)

ThreadSpec == Init /\ [][ThreadNext]_vars

\* ------------------------------------------------------------------------
\* C1: every SeverityAssessment returned by _assess_severity has an integer
\* score in 0..7, and its (level, urgency) is (severe, high) for a score of
\* 6 or more, (moderate, medium) for 4 or 5, (mild, low) for 2 or 3 and
\* (minimal, routine) for 0 or 1.
\* ------------------------------------------------------------------------
C1_SeverityMapping ==
    Returned("_assess_severity") =>
        /\ ret.score \in 0..7
        /\ (ret.score >= 6) => <<ret.level, ret.urgency>> = <<"severe", "high">>
        /\ (ret.score \in {4, 5}) =>
               <<ret.level, ret.urgency>> = <<"moderate", "medium">>
        /\ (ret.score \in {2, 3}) => <<ret.level, ret.urgency>> = <<"mild", "low">>
        /\ (ret.score <= 1) => <<ret.level, ret.urgency>> = <<"minimal", "routine">>

\* a call that reaches the top of the scale: all three factors contribute
C1_Witness ==
    /\ Returned("_assess_severity")
    /\ ret.score = 7
    /\ ret.level = "severe"
    /\ QGt(call.texture.edge_density, Q(2, 10))

\* ------------------------------------------------------------------------
\* C2: validate_image accepts a buffer (is_valid = True, metadata not None)
\* if and only if its length is within [1024, 10 MiB], PIL identifies it as
\* JPEG, PNG or WEBP and both dimensions are at least 100; in every other
\* case it returns is_valid = False, an error message and metadata = None.
\* ------------------------------------------------------------------------
Acceptable(image_data) ==
    /\ image_data.length >= 1024
    /\ image_data.length <= 10 * 1024 * 1024
    /\ image_data.format \in {"JPEG", "PNG", "WEBP"}
    /\ image_data.width >= 100
    /\ image_data.height >= 100

C2_ValidateIff ==
    Returned("validate_image") =>
        /\ ~ret.raises
        /\ IF Acceptable(call.image_data)
           THEN ret.value[1] = TRUE /\ ret.value[3] # None
           ELSE /\ ret.value[1] = FALSE
                /\ ret.value[2] # None /\ ret.value[2][1] # ""
                /\ ret.value[3] = None

\* ------------------------------------------------------------------------
\* Shorthands for the claims about one analyzer
\* ------------------------------------------------------------------------
Called == result # None

Succeeded == Called /\ ~result.raises /\ result.value.success

Failed == Called /\ ~result.raises /\ ~result.value.success

AllStages == <<"validate">> \o TryStages

LastStage == stages[Len(stages)]

ReportKeys ==
    {"metadata", "visual_analysis", "condition_detection",
     "severity_assessment", "recommendations", "confidence_level",
     "disclaimer", "next_steps"}

\* ------------------------------------------------------------------------
\* C3: every result of analyze_skin_condition is either success = True with
\* error = None and an analysis holding metadata, visual analysis, condition
\* detection, severity assessment, recommendations, confidence level,
\* disclaimer and next steps, or success = False with a non-empty error
\* string and analysis = None; never a mix of the two.
\* ------------------------------------------------------------------------
C3_TwoShapes ==
    (Called /\ ~result.raises) =>
        IF result.value.success
        THEN /\ result.value.error = None
             /\ result.value.analysis # None
             /\ ReportKeys \subseteq DOMAIN result.value.analysis
        ELSE /\ result.value.error # None
             /\ result.value.error[1] # ""
             /\ result.value.analysis = None

\* a call that failed in the last stage before the report was complete
C3_Witness ==
    /\ Failed
    /\ LastStage = "report"
    /\ result.value.analysis = None

\* ------------------------------------------------------------------------
\* C4: analyze_skin_condition never propagates an exception: a failure in
\* validation or in any later stage ends in the failure result, whose
\* message is the one of the failing stage.
\* ------------------------------------------------------------------------
ValidationMessages ==
    {"Image too large. Please send an image smaller than 10MB.",
     "Image too small. Please send a clear image.",
     "Unsupported format. Please send: jpg, jpeg, png, webp",
     "Image resolution too low. Please send a clearer image.",
     "Invalid image file. Error: "}

C4_NoException ==
    Called =>
        /\ ~result.raises
        /\ (stages # AllStages) =>
               /\ ~result.value.success
               /\ IF stages = <<"validate">>
                  THEN result.value.error[1] \in ValidationMessages
                  ELSE result.value.error[1] = "Error processing image: "

\* an exception raised inside validate_image came back as a failure result
C4_Witness ==
    /\ Failed
    /\ stages = <<"validate">>
    /\ result.value.error = <<"Invalid image file. Error: ", "not a TIFF file">>

\* ------------------------------------------------------------------------
\* C5: when an analysis fails at any stage, no later stage runs and
\* analysis_history is left as it was before the call; a record is appended
\* only by a call that returns success = True.
\* ------------------------------------------------------------------------
C5_FailureLeavesHistory ==
    [][ /\ (analysis_history' # analysis_history) =>
               (~result'.raises /\ result'.value.success)
        /\ (result' # None /\ ~result'.raises /\ ~result'.value.success) =>
               /\ analysis_history' = analysis_history
               /\ Len(stages') < Len(AllStages)
               /\ stages' = SubSeq(AllStages, 1, Len(stages'))
               /\ ~("history" \in {stages'[i] : i \in DOMAIN stages'}) ]_vars

\* a call failed while building the report, on an analyzer with a history
C5_Witness ==
    /\ Failed
    /\ LastStage = "report"
    /\ Len(analysis_history) >= 1

\* ------------------------------------------------------------------------
\* C6: analysis_history is append-only: each successful analysis appends
\* exactly one record (fingerprint, findings, severity of that analysis) at
\* the end, its length is the number of successful analyses so far, and no
\* operation removes, reorders or changes an existing record.
\* ------------------------------------------------------------------------
RecordOf(analysis) ==
    [image_hash |-> analysis.metadata.image_hash,
     findings |-> analysis.condition_detection.findings,
     severity |-> analysis.severity_assessment]

C6_AppendOnly ==
    [][ /\ Len(analysis_history') = successes'
        /\ \/ /\ successes' = successes
              /\ analysis_history' = analysis_history
           \/ /\ successes' = successes + 1
              /\ ~result'.raises /\ result'.value.success
              /\ analysis_history' =
                     Append(analysis_history, RecordOf(result'.value.analysis)) ]_vars

\* two different records in the order of their analyses, after a comparison
C6_Witness ==
    /\ Len(analysis_history) >= 2
    /\ analysis_history[1].image_hash = md5([id |-> 2])
    /\ analysis_history[2].image_hash = md5([id |-> 3])
    /\ successes = Len(analysis_history)
    /\ comparison.called

\* ------------------------------------------------------------------------
\* C7: when compare_with_history finds a prior record, with d = (current
\* severity score) - (prior severity score), the trend is 'worsening' when
\* d > 1, 'improving' when d < -1 and 'stable' when -1 <= d <= 1, and
\* severity_change equals d.
\* ------------------------------------------------------------------------
\* the records before the last one whose fingerprint differs from h
Distinct(h) ==
    {i \in 1..(Len(analysis_history) - 1) : analysis_history[i].image_hash # h}

Prior(h) == CHOOSE i \in Distinct(h) : \A j \in Distinct(h) : j <= i

ScoreAt(i) == analysis_history[i].severity.score

C7_TrendByDifference ==
    (comparison.called /\ comparison.ret # None) =>
        /\ Distinct(comparison.current_image_hash) # {}
        /\ LET d == ScoreAt(Len(analysis_history))
                    - ScoreAt(Prior(comparison.current_image_hash))
           IN  /\ comparison.ret.severity_change = d
               /\ (d > 1) => comparison.ret.trend = "worsening"
               /\ (d < -1) => comparison.ret.trend = "improving"
               /\ (-1 <= d /\ d <= 1) => comparison.ret.trend = "stable"

\* a difference of exactly one point is still stable
C7_Witness ==
    /\ comparison.called
    /\ comparison.ret # None
    /\ comparison.ret.severity_change = 1
    /\ comparison.ret.trend = "stable"

\* ------------------------------------------------------------------------
\* C8: compare_with_history, called with the fingerprint of the most recent
\* record, returns None when the history holds fewer than two distinct
\* fingerprints: an empty history, one record, or records of one
\* fingerprint only.
\* ------------------------------------------------------------------------
Fingerprints == {analysis_history[i].image_hash : i \in DOMAIN analysis_history}

C8_NoTrendYet ==
    (/\ comparison.called
     /\ Cardinality(Fingerprints) < 2
     /\ \/ analysis_history = <<>>
        \/ comparison.current_image_hash
               = analysis_history[Len(analysis_history)].image_hash) =>
        comparison.ret = None

\* several records of one fingerprint, compared with that fingerprint
C8_Witness ==
    /\ comparison.called
    /\ Len(analysis_history) >= 2
    /\ Cardinality(Fingerprints) = 1
    /\ comparison.current_image_hash \in Fingerprints
    /\ comparison.ret = None

\* ------------------------------------------------------------------------
\* C9: after two consecutive successful analyses of one fingerprint,
\* compare_with_history for it registers no trend; after a third successful
\* analysis with another fingerprint and a higher severity score than the
\* first distinct record, compare_with_history for the third fingerprint
\* yields 'worsening'.
\* ------------------------------------------------------------------------
SameTwice ==
    /\ comparison.called
    /\ Len(analysis_history) = 2
    /\ analysis_history[1].image_hash = analysis_history[2].image_hash
    /\ comparison.current_image_hash = analysis_history[2].image_hash

ThirdDiffers ==
    /\ comparison.called
    /\ Len(analysis_history) = 3
    /\ analysis_history[1].image_hash = analysis_history[2].image_hash
    /\ analysis_history[3].image_hash # analysis_history[1].image_hash
    /\ comparison.current_image_hash = analysis_history[3].image_hash

\* the claim as stated: any higher score yields 'worsening'
C9_AnyHigherWorsens ==
    /\ SameTwice => comparison.ret = None
    /\ (ThirdDiffers /\ ScoreAt(3) > ScoreAt(1)) =>
           (comparison.ret # None /\ comparison.ret.trend = "worsening")

\* C9 as amended: a score more than one point higher yields 'worsening', a
\* score exactly one point higher yields 'stable'
C9_HigherByTwoWorsens ==
    /\ SameTwice => comparison.ret = None
    /\ (ThirdDiffers /\ ScoreAt(3) > ScoreAt(1) + 1) =>
           (comparison.ret # None /\ comparison.ret.trend = "worsening")
    /\ (ThirdDiffers /\ ScoreAt(3) = ScoreAt(1) + 1) =>
           (comparison.ret # None /\ comparison.ret.trend = "stable")

\* the third analysis scored at least two points more than the repeated first
C9_Witness ==
    /\ ThirdDiffers
    /\ ScoreAt(3) >= ScoreAt(1) + 2
    /\ comparison.ret # None
    /\ comparison.ret.trend = "worsening"

\* ------------------------------------------------------------------------
\* C10: detect_skin_condition_type returns exactly the findings of the
\* rules whose conditions hold, each once, in the order inflammatory
\* (redness > 30 and red-dominant percentage > 40), rash/eczema (redness >
\* 30 and texture type rough), irregular texture (edge density > 0.15),
\* dark pigmentation; the rash/eczema rule does not depend on the
\* inflammatory rule.
\* ------------------------------------------------------------------------
ExpectedFindings(c, t) ==
    LET redness == QGt(c.redness_score, QInt(30))
        holds ==
            <<redness /\ QGt(c.inflammation_indicators.red_dominant_percentage,
                             QInt(40)),
              redness /\ t.texture_type = "rough",
              QGt(t.edge_density, Q(15, 100)),
              DarkPigmentationRule(c)>>
        all == <<InflammatoryFinding, RashEczemaFinding,
                 IrregularTextureFinding, DarkPigmentationFinding>>
        Pick(i) == IF holds[i] THEN <<all[i]>> ELSE <<>>
    IN  Pick(1) \o Pick(2) \o Pick(3) \o Pick(4)

C10_RuleChain ==
    Returned("detect_skin_condition_type") =>
        ret.findings = ExpectedFindings(call.color, call.texture)

\* the inflammatory and the rash/eczema rule fire together, with a third
C10_Witness ==
    /\ Returned("detect_skin_condition_type")
    /\ Len(ret.findings) = 3
    /\ ret.findings[1].condition = "inflammatory_skin_condition"
    /\ ret.findings[2].condition = "possible_rash_or_eczema"
    /\ ret.findings[3].condition = "irregular_surface_texture"

\* ------------------------------------------------------------------------
\* C11: detect_skin_condition_type returns the dark_pigmentation finding
\* exactly when every channel of the dominant colour is below 80 and the
\* channels sum to less than 180; that finding has confidence "low" and the
\* urgent dermatologist warning, and no other finding has a warning.
\* ------------------------------------------------------------------------
DarkFindings == {i \in 1..Len(ret.findings) : ret.findings[i].condition = "dark_pigmentation"}

UrgentWarning ==
    "URGENT: Dark or irregular moles should be checked by a dermatologist immediately"

C11_DarkPigmentation ==
    Returned("detect_skin_condition_type") =>
        LET dominant_color == call.color.dominant_color
        IN  /\ (DarkFindings # {}) <=>
                   /\ \A c \in 1..3 : dominant_color[c] < 80
                   /\ dominant_color[1] + dominant_color[2] + dominant_color[3] < 180
            /\ \A i \in 1..Len(ret.findings) :
                   IF i \in DarkFindings
                   THEN /\ ret.findings[i].confidence = "low"
                        /\ "warning" \in DOMAIN ret.findings[i]
                        /\ ret.findings[i].warning = UrgentWarning
                   ELSE "warning" \notin DOMAIN ret.findings[i]

\* the dark finding next to three findings that carry no warning
C11_Witness ==
    /\ Returned("detect_skin_condition_type")
    /\ Len(ret.findings) = 4
    /\ DarkFindings = {4}
    /\ call.color.dominant_color = <<79, 79, 21>>

\* ------------------------------------------------------------------------
\* C12: in every result of detect_skin_condition_type,
\* requires_professional_evaluation is true iff findings is not empty.
\* ------------------------------------------------------------------------
C12_ProfessionalEvaluation ==
    Returned("detect_skin_condition_type") =>
        (ret.requires_professional_evaluation <=> ret.findings # <<>>)

\* exactly one finding: evaluation is required
C12_Witness ==
    /\ Returned("detect_skin_condition_type")
    /\ Len(ret.findings) = 1
    /\ ret.requires_professional_evaluation

\* ------------------------------------------------------------------------
\* C13: for every RGB image with channels in 0..255, the redness score and
\* the red-dominant pixel percentage that analyze_colors returns lie in
\* [0, 100].
\* ------------------------------------------------------------------------
InPercentRange(q) == q.d > 0 /\ QGe(q, QInt(0)) /\ QLe(q, QInt(100))

C13_ScoresBounded ==
    Returned("analyze_colors") =>
        /\ InPercentRange(ret.redness_score)
        /\ InPercentRange(ret.inflammation_indicators.red_dominant_percentage)

\* an image less red than green and blue, with a red pixel whose g + 20
\* wraps around: the raw redness is negative and is raised to 0
C13_Witness ==
    /\ Returned("analyze_colors")
    /\ QLt(RednessUnclamped(Channel(call.pixels, 1), Channel(call.pixels, 2), Channel(call.pixels, 3)), QInt(0))
    /\ QEq(ret.redness_score, QInt(0))
    /\ \E i \in 1..Len(call.pixels) : call.pixels[i] = <<255, 240, 240>>
    /\ QGt(ret.inflammation_indicators.red_dominant_percentage, QInt(0))

\* ------------------------------------------------------------------------
\* C14: every successful analysis carries a non-empty disclaimer, for every
\* language tag (the English one for a tag that is not recognised); the
\* text generate_analysis_report builds from a successful analysis and the
\* reply process_image_message builds on success contain that disclaimer.
\* ------------------------------------------------------------------------
HasLine(lines, text) ==
    \E i \in 1..Len(lines) : Len(lines[i]) = 1 /\ lines[i][1] = text

C14_DisclaimerAlways ==
    /\ (Returned("analyze_skin_condition") /\ Succeeded) =>
           /\ result.value.analysis.disclaimer # ""
           /\ result.value.analysis.disclaimer =
                  IF call.language = "hindi" THEN HindiDisclaimer
                  ELSE EnglishDisclaimer
    /\ (Returned("generate_analysis_report") /\ call.analysis # None) =>
           /\ ~ret.raises
           /\ call.analysis.disclaimer # ""
           /\ HasLine(ret.value, call.analysis.disclaimer)
    /\ (Returned("process_image_message") /\ Succeeded) =>
           /\ ~ret.raises
           /\ result.value.analysis.disclaimer # ""
           /\ HasLine(ret.value, result.value.analysis.disclaimer)

\* a reply to a tamil caption: the analysis succeeded and the reply holds
\* the English disclaimer
C14_Witness ==
    /\ Returned("process_image_message")
    /\ Succeeded
    /\ user_context.language = Str("tamil")
    /\ HasLine(ret.value, EnglishDisclaimer)

\* ------------------------------------------------------------------------
\* C15: analysing the same byte buffer twice on one analyzer, with any
\* analyses in between, yields the same colour profile, texture profile,
\* findings and severity assessment: every successful analysis equals the
\* analysis of the same buffer by a new analyzer, whatever the history.
\* ------------------------------------------------------------------------
BufferOf(image_hash) == CHOOSE b \in Catalogue : md5(b) = image_hash

Profile(analysis) ==
    [color |-> analysis.visual_analysis.color_metrics,
     texture |-> analysis.visual_analysis.texture_metrics,
     findings |-> analysis.condition_detection.findings,
     severity |-> analysis.severity_assessment]

\* the analysis of the buffer by an analyzer that has analysed nothing
FirstAnalysis(image_data) ==
    analyze_skin_condition(image_data, "english", "none").outcome.value.analysis

C16_SingleWriter ==
    Cardinality({t \in Threads : threads[t].pc = "append"}) <= 1

\* ------------------------------------------------------------------------
\* C17: an image filled with RGB (255, 100, 100) (redness above 60, every
\* pixel red-dominant, edge density 0, intensity variance 0) yields exactly
\* the inflammatory and the rash/eczema finding, a severity score of at
\* least 6 with level severe and urgency high, and the analysis succeeds
\* for the English and for the Hindi language tag.
\* ------------------------------------------------------------------------
RedFill == <<255, 100, 100>>

\* a call on a well-formed encoding of the red image, nothing failing
RedImageCall ==
    /\ Returned("analyze_skin_condition")
    /\ call.image_data.fill = RedFill
    /\ Acceptable(call.image_data)
    /\ call.image_data.exif # "corrupt"
    /\ call.image_data.body = "complete"
    /\ call.fault = "none"
    /\ call.language \in {"english", "hindi"}

Conditions(findings) == [i \in 1..Len(findings) |-> findings[i].condition]

C17_RedImage ==
    RedImageCall =>
        /\ Succeeded
        /\ LET analysis == result.value.analysis
               color == analysis.visual_analysis.color_metrics
               texture == analysis.visual_analysis.texture_metrics
           IN  /\ QGt(color.redness_score, QInt(60))
               /\ QEq(color.inflammation.red_dominant_percentage, QInt(100))
               /\ QEq(texture.edge_density, QInt(0))
               /\ QEq(texture.smoothness, QInt(0))
               /\ Conditions(analysis.condition_detection.findings)
                      = <<"inflammatory_skin_condition", "possible_rash_or_eczema">>
               /\ QLt(color.redness_score, QInt(62))
               /\ analysis.severity_assessment.score >= 6
               /\ analysis.severity_assessment.level = "severe"
               /\ analysis.severity_assessment.urgency = "high"

\* the Hindi analysis of the red image succeeded and left its record
C17_Witness ==
    /\ RedImageCall
    /\ call.language = "hindi"
    /\ Succeeded
    /\ Len(analysis_history) = 1
    /\ analysis_history[1].severity.score = 6

\* ------------------------------------------------------------------------
\* C18: every well-formed 200x200 uniform mid-gray image in a supported
\* format (JPEG, PNG or WEBP) is accepted by validate_image, whatever the
\* byte length of its encoding.
\* ------------------------------------------------------------------------
\* validate_image returned for a well-formed mid-gray 200x200 encoding
GrayImageCall ==
    /\ Returned("validate_image")
    /\ call.image_data.fill = Gray
    /\ call.image_data.width = 200
    /\ call.image_data.height = 200
    /\ call.image_data.format \in {"JPEG", "PNG", "WEBP"}
    /\ call.image_data.exif # "corrupt"
    /\ call.image_data.body = "complete"

C18_GrayAccepted ==
    GrayImageCall => ~ret.raises /\ ret.value[1] = TRUE

\* C18 as the code has it: the image is accepted when its encoding is
\* 1024 bytes to 10 MiB long; a shorter encoding is rejected as too small
\* and a longer one as too large, both with metadata None.
C18_GrayAcceptedWithinSize ==
    GrayImageCall =>
        /\ ~ret.raises
        /\ IF call.image_data.length < 1024
           THEN ret.value = Rejected(Str("Image too small. Please send a clear image."))
           ELSE IF call.image_data.length > 10 * 1024 * 1024
           THEN ret.value =
                    Rejected(Str("Image too large. Please send an image smaller than 10MB."))
           ELSE /\ ret.value[1] = TRUE
                /\ ret.value[2] = Str("Image valid")
                /\ ret.value[3] # None
                /\ ret.value[3].size = <<200, 200>>

\* a gray image whose encoding is exactly 1024 bytes long was accepted
C18_Witness ==
    /\ GrayImageCall
    /\ call.image_data.length = 1024
    /\ ret.value[1] = TRUE

\* ------------------------------------------------------------------------
\* C19: the next-steps template chosen by _get_next_steps depends on the
\* urgency alone and is the same tier for every language tag: 'high'
\* selects the urgent template, 'medium' the 24-48 hour consultation
\* template, every other urgency the self-care monitoring template; the
\* language tag only selects the wording.
\* ------------------------------------------------------------------------
\* the tier of a list of next steps, read off its first step
TierOf(steps) ==
    CASE steps[1] \in {"1. Turant doctor se appointment lein",
                       "1. Schedule immediate doctor appointment"} -> "urgent"
      [] steps[1] \in {"1. 24-48 ghante mein dermatologist se appointment lein",
                       "1. Schedule dermatologist appointment within 24-48 hours"}
            -> "consultation"
      [] steps[1] \in {"1. General skin care routine follow karein",
                       "1. Continue general skin care routine"} -> "self-care"
      [] OTHER -> "unknown"

TierFor(urgency) ==
    IF urgency = "high" THEN "urgent"
    ELSE IF urgency = "medium" THEN "consultation"
    ELSE "self-care"

\* the urgency of the dict the call passes, 'routine' without the key
PassedUrgency ==
    IF "urgency" \in DOMAIN call.severity THEN call.severity.urgency ELSE "routine"

C19_TierByUrgency ==
    Returned("_get_next_steps") =>
        /\ ~ret.raises
        /\ Len(ret.value) = 4
        /\ TierOf(ret.value) = TierFor(PassedUrgency)
        /\ \A l \in Languages :
               /\ TierOf(_get_next_steps(call.severity, l)) = TierOf(ret.value)
               /\ (l = "hindi") = (call.language = "hindi")
                      => _get_next_steps(call.severity, l) = ret.value
        /\ \A v \in LevelInputs :
               _get_next_steps([call.severity EXCEPT !.level = v], call.language)
                   = ret.value

\* a mild severity of high urgency got the urgent steps in Hindi
C19_Witness ==
    /\ Returned("_get_next_steps")
    /\ call.severity = [level |-> "mild", urgency |-> "high"]
    /\ call.language = "hindi"
    /\ TierOf(ret.value) = "urgent"

\* ------------------------------------------------------------------------
\* C20: for one image, analyze_skin_condition run with any two language
\* tags gives the same validation outcome, colour and texture metrics,
\* findings, confidence scores, severity assessment and overall confidence
\* label; only recommendations, next steps and disclaimer may differ.
\* ------------------------------------------------------------------------
\* what a run leaves once the localised texts are dropped
LanguageFree(outcome, ran) ==
    IF outcome.raises \/ ~outcome.value.success
    THEN [outcome |-> outcome, stages |-> ran]
    ELSE [outcome |-> [metadata |-> outcome.value.analysis.metadata,
                       image_quality |-> outcome.value.analysis.image_quality,
                       resolution |-> outcome.value.analysis.resolution,
                       visual_analysis |-> outcome.value.analysis.visual_analysis,
                       condition_detection |->
                           outcome.value.analysis.condition_detection,
                       severity_assessment |->
                           outcome.value.analysis.severity_assessment,
                       confidence_level |->
                           outcome.value.analysis.confidence_level],
          stages |-> ran]

\* the same buffer under the same fault, analysed with the tag language
Rerun(language) ==
    Let(analyze_skin_condition(call.image_data, language, call.fault),
        LAMBDA done : LanguageFree(done.outcome, done.stages))

C20_LanguageIndependent ==
    Returned("analyze_skin_condition") =>
        \A language \in Languages : Rerun(language) = LanguageFree(result, stages)

\* a Hindi analysis succeeded whose recommendations differ from the English
\* ones while everything else is the same
C20_Witness ==
    /\ Returned("analyze_skin_condition")
    /\ call.language = "hindi"
    /\ Succeeded
    /\ Rerun("english") = LanguageFree(result, stages)
    /\ analyze_skin_condition(call.image_data, "english", call.fault)
           .outcome.value.analysis.recommendations
         # result.value.analysis.recommendations

\* ------------------------------------------------------------------------
\* C22: the severity score is the sum of three single-bucket contributions
\* with strict thresholds: redness 3 if > 60, else 2 if > 40, else 1 if
\* > 20, else 0; red-dominant percentage 3 if > 50, else 2 if > 30, else 1
\* if > 15, else 0; edge density 1 if > 0.2, else 0.  A value on a threshold
\* falls in the lower bucket, and the score is non-decreasing in each input.
\* ------------------------------------------------------------------------
\* the bucket of the value n / d among the limits, given times 1000
Bucket(value, high, middle, low) ==
    IF 1000 * value.n > high * value.d THEN 3
    ELSE IF 1000 * value.n > middle * value.d THEN 2
    ELSE IF 1000 * value.n > low * value.d THEN 1
    ELSE 0

PassedRedness == call.color.redness_score
PassedPercentage == call.color.inflammation_indicators.red_dominant_percentage
PassedEdgeDensity == call.texture.edge_density

WithRedness(r) == [call.color EXCEPT !.redness_score = Q(r, 10)]
WithPercentage(p) ==
    [call.color EXCEPT !.inflammation_indicators = InflammationBundle(Q(p, 10))]
WithEdgeDensity(e) == [call.texture EXCEPT !.edge_density = Q(e, 1000)]

C22_SingleBuckets ==
    Returned("_assess_severity") =>
        /\ ret.score =
               Bucket(PassedRedness, 60000, 40000, 20000)
               + Bucket(PassedPercentage, 50000, 30000, 15000)
               + (IF 1000 * PassedEdgeDensity.n > 200 * PassedEdgeDensity.d
                  THEN 1 ELSE 0)
        /\ \A r \in RednessInputs :
               QGe(Q(r, 10), PassedRedness) =>
                   _assess_severity(WithRedness(r), call.texture).score >= ret.score
        /\ \A p \in PercentInputs :
               QGe(Q(p, 10), PassedPercentage) =>
                   _assess_severity(WithPercentage(p), call.texture).score >= ret.score
        /\ \A e \in EdgeInputs :
               QGe(Q(e, 1000), PassedEdgeDensity) =>
                   _assess_severity(call.color, WithEdgeDensity(e)).score >= ret.score

\* all three inputs sit on a threshold: 60, 50 and 0.2 score 2 + 2 + 0
C22_Witness ==
    /\ Returned("_assess_severity")
    /\ QEq(PassedRedness, QInt(60))
    /\ QEq(PassedPercentage, QInt(50))
    /\ QEq(PassedEdgeDensity, Q(2, 10))
    /\ ret.score = 4

\* ------------------------------------------------------------------------
\* C23: the prior record compare_with_history compares against is the
\* record with the greatest index below the last record whose fingerprint
\* differs from the fingerprint argument; records with the same fingerprint
\* are skipped, however many there are and wherever they sit.
\* ------------------------------------------------------------------------
\* the records below the last one whose fingerprint is not the argument
Differing ==
    {i \in 1..(Len(analysis_history) - 1) :
        analysis_history[i].image_hash # comparison.current_image_hash}

C23_LatestDiffering ==
    (comparison.called /\ Len(analysis_history) >= 2) =>
        IF Differing = {}
        THEN comparison.ret = None
        ELSE /\ comparison.ret # None
             /\ \E p \in Differing :
                    /\ \A i \in Differing : i <= p
                    /\ \A i \in (p + 1)..(Len(analysis_history) - 1) :
                           analysis_history[i].image_hash
                               = comparison.current_image_hash
                    /\ comparison.ret.severity_change =
                           analysis_history[Len(analysis_history)].severity.score
                           - analysis_history[p].severity.score

\* the record before the last has the fingerprint of the argument and is
\* skipped; the first record is the prior one and scored differently
C23_Witness ==
    /\ comparison.called
    /\ Len(analysis_history) = 3
    /\ analysis_history[2].image_hash = comparison.current_image_hash
    /\ analysis_history[1].image_hash # comparison.current_image_hash
    /\ analysis_history[3].image_hash # comparison.current_image_hash
    /\ comparison.ret # None
    /\ comparison.ret.severity_change # 0

\* ------------------------------------------------------------------------
\* C24: the redness score is 0 whenever the mean of the green channel or
\* the mean of the blue channel is not positive, whatever the red channel
\* is; otherwise it is
\* clamp(0, 100, ((mean R - mean G) + (mean R - mean B)) / 2 / 2.55).
\* ------------------------------------------------------------------------
ChannelSum(c) == Sum(Channel(call.pixels, c))

\* ((mean R - mean G) + (mean R - mean B)) / 2 / 2.55 as a fraction
RawRedness ==
    Q(100 * (2 * ChannelSum(1) - ChannelSum(2) - ChannelSum(3)),
      510 * Len(call.pixels))

C24_RednessFormula ==
    Returned("analyze_colors") =>
        IF ChannelSum(2) <= 0 \/ ChannelSum(3) <= 0
        THEN QEq(ret.redness_score, QInt(0))
        ELSE IF QLt(RawRedness, QInt(0)) THEN QEq(ret.redness_score, QInt(0))
        ELSE IF QGt(RawRedness, QInt(100)) THEN QEq(ret.redness_score, QInt(100))
        ELSE QEq(ret.redness_score, RawRedness)

\* a red image with some green and no blue at all scores 0
C24_Witness ==
    /\ Returned("analyze_colors")
    /\ ChannelSum(1) = 255 * Len(call.pixels)
    /\ ChannelSum(2) > 0
    /\ ChannelSum(3) = 0
    /\ QEq(ret.redness_score, QInt(0))

\* ------------------------------------------------------------------------
\* C25: the texture type is 'rough' exactly when smoothness
\* = 1 - 1/(1 + variance) is below 0.5 and 'smooth' otherwise, where
\* smoothness lies in [0, 1) and grows with the intensity variance, so that
\* high-variance images are the rough ones.
\* ------------------------------------------------------------------------
\* the variance of the intensities of a grayscale array, times size^2
ArrayVariance2(gray_array) == Variance2(Concat(gray_array))

\* the label follows the cut-point and smoothness grows with the variance
LabelBySmoothness ==
    Returned("analyze_texture") =>
        /\ (ret.texture_type = "rough") = QLt(ret.smoothness, Q(1, 2))
        /\ ret.texture_type \in {"rough", "smooth"}
        /\ QGe(ret.smoothness, QInt(0)) /\ QLt(ret.smoothness, QInt(1))
        /\ \A x \in GrayArrayInputs :
               ArrayVariance2(x) >= ArrayVariance2(call.gray_array) =>
                   QGe(TextureStats(x).smoothness, ret.smoothness)

\* no image labelled smooth has a greater variance than one labelled rough
RoughIsHighVariance ==
    (Returned("analyze_texture") /\ ret.texture_type = "rough") =>
        \A x \in GrayArrayInputs :
            TextureStats(x).texture_type = "smooth" =>
                ArrayVariance2(x) <= ArrayVariance2(call.gray_array)

C25_RoughBySmoothness == LabelBySmoothness /\ RoughIsHighVariance

\* ------------------------------------------------------------------------
\* C27: in every successful analysis the action block of the
\* recommendations (chosen by severity level) and the next-steps template
\* (chosen by urgency) are of the same tier: urgent with urgent
\* (severe/high), 1-2 days with 24-48 hours (moderate/medium), general care
\* with self-care (mild/low and minimal/routine), for both languages.
\* ------------------------------------------------------------------------
\* the tier of the action block in a list of recommendation lines
ActionTier(lines) ==
    IF HasLine(lines, "URGENT ACTION REQUIRED:") THEN "urgent"
    ELSE IF HasLine(lines, "RECOMMENDED ACTIONS:") THEN "consultation"
    ELSE IF HasLine(lines, "GENERAL CARE:") THEN "self-care"
    ELSE "unknown"

TierOfSeverity(severity) ==
    CASE <<severity.level, severity.urgency>> = <<"severe", "high">> -> "urgent"
      [] <<severity.level, severity.urgency>> = <<"moderate", "medium">>
            -> "consultation"
      [] <<severity.level, severity.urgency>>
            \in {<<"mild", "low">>, <<"minimal", "routine">>} -> "self-care"
      [] OTHER -> "mismatch"

C27_SameTier ==
    /\ (Returned("analyze_skin_condition") /\ Succeeded) =>
           LET analysis == result.value.analysis
           IN  /\ ActionTier(analysis.recommendations) = TierOf(analysis.next_steps)
               /\ TierOf(analysis.next_steps)
                      = TierOfSeverity(analysis.severity_assessment)
    /\ Returned("_assess_severity") =>
           \A language \in Languages :
               /\ ActionTier(_get_detailed_recommendations(
                                 [findings |-> <<>>], ret, language))
                      = TierOf(_get_next_steps(ret, language))
               /\ TierOf(_get_next_steps(ret, language)) = TierOfSeverity(ret)

\* a Hindi analysis of moderate severity: the 1-2 day block and the 24-48
\* hour steps
C27_Witness ==
    /\ Returned("analyze_skin_condition")
    /\ Succeeded
    /\ call.language = "hindi"
    /\ result.value.analysis.severity_assessment.level = "moderate"
    /\ ActionTier(result.value.analysis.recommendations) = "consultation"
    /\ TierOf(result.value.analysis.next_steps) = "consultation"

\* ------------------------------------------------------------------------
\* C28: the severity assessment depends only on the redness score, the
\* red-dominant percentage and the edge density: the findings, the dominant
\* colour and the texture type never change it, so a dark-pigmentation
\* finding carrying the URGENT warning leaves level, urgency and next steps
\* as they would be without it, while the warning text still appears in the
\* recommendation lines of both languages.
\* ------------------------------------------------------------------------
\* the three numbers of an analysis, with a gray dominant colour and a
\* smooth texture put beside them
ThreeNumbersColor(analysis) ==
    [redness_score |-> analysis.visual_analysis.color_metrics.redness_score,
     inflammation_indicators |-> analysis.visual_analysis.color_metrics.inflammation,
     dominant_color |-> <<128, 128, 128>>]

ThreeNumbersTexture(analysis) ==
    [edge_density |-> analysis.visual_analysis.texture_metrics.edge_density,
     texture_type |-> "smooth"]

WarningLines(analysis) ==
    \A i \in 1..Len(analysis.condition_detection.findings) :
        "warning" \in DOMAIN analysis.condition_detection.findings[i] =>
            \E k \in 1..Len(analysis.recommendations) :
                analysis.recommendations[k]
                    = <<"   ", analysis.condition_detection.findings[i].warning>>

C28_SeverityIgnoresFindings ==
    /\ Returned("_assess_severity") =>
           \A dc \in DominantInputs, tt \in TextureTypeInputs :
               _assess_severity([call.color EXCEPT !.dominant_color = dc],
                                [call.texture EXCEPT !.texture_type = tt]) = ret
    /\ (Returned("analyze_skin_condition") /\ Succeeded) =>
           LET analysis == result.value.analysis
               plain == _assess_severity(ThreeNumbersColor(analysis),
                                         ThreeNumbersTexture(analysis))
           IN  /\ analysis.severity_assessment = plain
               /\ analysis.next_steps = _get_next_steps(plain, call.language)
               /\ WarningLines(analysis)

\* a dark image analysed in Hindi: the URGENT warning among the lines,
\* the severity minimal/routine and the next steps the self-care ones
C28_Witness ==
    /\ Returned("analyze_skin_condition")
    /\ Succeeded
    /\ call.language = "hindi"
    /\ \E i \in 1..Len(result.value.analysis.condition_detection.findings) :
           /\ result.value.analysis.condition_detection.findings[i].condition
                  = "dark_pigmentation"
           /\ result.value.analysis.condition_detection.findings[i].warning
                  = UrgentWarning
    /\ \E k \in 1..Len(result.value.analysis.recommendations) :
           result.value.analysis.recommendations[k] = <<"   ", UrgentWarning>>
    /\ result.value.analysis.severity_assessment.level = "minimal"
    /\ result.value.analysis.severity_assessment.urgency = "routine"
    /\ TierOf(result.value.analysis.next_steps) = "self-care"

Char(s, i) == SubSeq(s, i, i)

\* c in chars, for a character c
CharIn(c, chars) == \E i \in 1..Len(chars) : Char(chars, i) = c

\* needle in text
Contains(text, needle) ==
    \E i \in 1..(Len(text) - Len(needle) + 1) :
        SubSeq(text, i, i + Len(needle) - 1) = needle

\* word in words, for a list
InList(word, words) == \E i \in 1..Len(words) : words[i] = word

\* any(keyword in text for keyword in keywords)
AnyIn(keywords, text) == \E i \in 1..Len(keywords) : Contains(text, keywords[i])

UpperCase == "ABCDEFGHIJKLMNOPQRSTUVWXYZ"

LowerCase == "abcdefghijklmnopqrstuvwxyz"

DigitChars == "0123456789"

Whitespace == " "

LowerChar(c) ==
    IF CharIn(c, UpperCase)
    THEN Char(LowerCase, CHOOSE i \in 1..Len(UpperCase) : Char(UpperCase, i) = c)
    ELSE c

RECURSIVE LowerTo(_, _)
LowerTo(s, n) == IF n = 0 THEN "" ELSE LowerTo(s, n - 1) \o LowerChar(Char(s, n))

\* str.lower()
lower(s) == LowerTo(s, Len(s))

RECURSIVE lstrip(_, _)
lstrip(s, chars) ==
    IF Len(s) > 0 /\ CharIn(Char(s, 1), chars)
    THEN lstrip(SubSeq(s, 2, Len(s)), chars) ELSE s

RECURSIVE rstrip(_, _)
rstrip(s, chars) ==
    IF Len(s) > 0 /\ CharIn(Char(s, Len(s)), chars)
    THEN rstrip(SubSeq(s, 1, Len(s) - 1), chars) ELSE s

\* str.strip(chars)
strip(s, chars) == rstrip(lstrip(s, chars), chars)

\* the words of s from position i on, word being the letters read so far
RECURSIVE SplitFrom(_, _, _)
SplitFrom(s, i, word) ==
    IF i > Len(s) THEN (IF word = "" THEN <<>> ELSE <<word>>)
    ELSE IF CharIn(Char(s, i), Whitespace)
    THEN (IF word = "" THEN <<>> ELSE <<word>>) \o SplitFrom(s, i + 1, "")
    ELSE SplitFrom(s, i + 1, word \o Char(s, i))

\* str.split()
split(s) == SplitFrom(s, 1, "")

RECURSIVE JoinTo(_, _, _)
JoinTo(sep, words, n) ==
    IF n = 0 THEN ""
    ELSE IF n = 1 THEN words[1]
    ELSE JoinTo(sep, words, n - 1) \o sep \o words[n]

\* sep.join(words)
join(sep, words) == JoinTo(sep, words, Len(words))

\* str.isdigit()
isdigit(s) == Len(s) > 0 /\ \A i \in 1..Len(s) : CharIn(Char(s, i), DigitChars)

negative_words ==
    <<"nahi", "no", "nai", "naa", "cancel", "rehne", "mat">>

affirmative_words ==
    <<"yes", "haan", "ha", "ji", "zaroor", "chahiye", "chahie", "sure",
      "ok", "okay", "please", "kripya", "batao", "bataye">>

skip_words ==
    <<"mein", "ka", "ki", "hai", "hain", "the", "in", "at", "me", "please",
      "kripya", "se", "batayen", "batao", "bataye", "tell", "my", "is",
      "area", "location", "jagah", "city", "shahar">>

clinic_keywords ==
    <<"clinic", "hospital", "doctor", "clinic chahiye", "doctor dikhaana",
      "najdeeki", "nearby", "paas mein", "clinic dhundo", "hospital kahan",
      "pharmacy", "medical", "chemist", "dispensary">>

image_keywords ==
    <<"photo", "picture", "image", "pic", "photo bhejo", "image send",
      "tasveer", "photo dikhao", "dekhna hai", "rash dikha", "skin dikha">>

emergency_keywords ==
    <<
      <<"chest pain", "seene mein dard", "dil ka dard",
        "saans nahi aa rahi", "bahut bleeding", "khoon bah raha", "behosh",
        "accident", "stroke", "paralysis", "lakwa", "heart attack">>,
      <<"chest pain", "heart attack", "can't breathe",
        "breathing difficulty", "heavy bleeding", "fainting", "fainted",
        "severe accident", "stroke", "paralysis", "unconscious">>
    >>

symptom_keywords ==
    <<
      [symptom |-> "headache", keywords |->
        <<"sir dard", "headache", "head pain", "sar dard", "dokedhukhi",
          "matha byatha", "thalaivirai", "thalanoppi", "sir darad",
          "mathano dukhavo">>],
      [symptom |-> "fever", keywords |->
        <<"bukhar", "fever", "tap", "badan garam", "taap", "jvar",
          "kaychhal", "jvaram", "bukhar", "tav">>],
      [symptom |-> "cough", keywords |->
        <<"khansi", "cough", "khaansi", "khokala", "kashi", "irumal",
          "daggu", "khangh", "udharas">>],
      [symptom |-> "cold", keywords |->
        <<"sardi", "cold", "zukam", "nazla", "sardhi", "sardi", "chazhi",
          "jalabu", "zukam", "shardi">>],
      [symptom |-> "stomach_pain", keywords |->
        <<"pet dard", "stomach pain", "pet mein dard", "paet dard",
          "potdukhi", "pet byatha", "vayitru vali", "kadapu noppi",
          "pet darad", "petman dukhavo">>],
      [symptom |-> "vomiting", keywords |->
        <<"ulti", "vomit", "vomiting", "qai", "oolti", "bomi", "vanthi",
          "vantulu", "ulti", "ulti">>],
      [symptom |-> "diarrhea", keywords |->
        <<"dast", "loose motion", "diarrhea", "patla pakhana", "julab",
          "diarrhea", "vairuppokku", "virechanalu", "dast", "jhada">>],
      [symptom |-> "body_pain", keywords |->
        <<"badan dard", "body pain", "body ache", "sharir dard",
          "sharir dukhane", "shorir byatha", "udal vali", "sharira noppi",
          "sharir darad", "sharirman dukhavo">>],
      [symptom |-> "weakness", keywords |->
        <<"kamzori", "weakness", "thakan", "fatigue", "ashaktapana",
          "durbalata", "palaveenam", "balaheenatha", "kamzori", "nablai">>]
    >>

language_patterns ==
    <<
      [lang |-> "hindi", weight |-> 10, patterns |->
        <<"hai", "hain", "mujhe", "kya", "aap", "ko", "se", "mein", "ka",
          "ki", "ho", "thi", "tha", "main", "aapko", "mere", "tumhe",
          "usko", "yeh", "woh", "kaise", "kahan", "kab", "bukhar", "dard",
          "sir", "pet", "doctor", "clinic">>],
      [lang |-> "english", weight |-> 10, patterns |->
        <<"the", "is", "are", "was", "were", "what", "how", "can", "have",
          "has", "with", "for", "from", "this", "that", "my", "your",
          "his", "her", "their", "pain", "fever", "headache", "stomach",
          "doctor", "clinic", "need", "help">>],
      [lang |-> "marathi", weight |-> 12, patterns |->
        <<"aahe", "aahes", "aahot", "mi", "tumhi", "tu", "tyala", "mala",
          "tula", "kay", "kase", "kuthe", "kev", "asa">>],
      [lang |-> "bengali", weight |-> 12, patterns |->
        <<"ami", "tumi", "apni", "amar", "tomar", "apnar", "ki", "keno",
          "kothay", "kivabe", "ache", "chhilo">>],
      [lang |-> "tamil", weight |-> 12, patterns |->
        <<"nan", "nee", "neenga", "enna", "eppadi", "enga", "ennoda",
          "ungala", "iruku", "irundu">>],
      [lang |-> "telugu", weight |-> 12, patterns |->
        <<"nenu", "nuvvu", "meeru", "naa", "nee", "mee", "enti", "ela",
          "ekkada", "undi", "unnadi">>],
      [lang |-> "punjabi", weight |-> 12, patterns |->
        <<"main", "tu", "tusi", "mera", "tera", "tusada", "ki", "kivein",
          "kithe", "hai", "hain", "si">>],
      [lang |-> "gujarati", weight |-> 12, patterns |->
        <<"hu", "tame", "tu", "maru", "taru", "tamaru", "shu", "kem",
          "kyaa", "chhe", "hato", "hati">>]
    >>
skin_words == <<"skin", "rash", "daad", "kharish">>

\* the characters of a script of detect_by_script that the text holds
ScriptCount(text, script) ==
    IF script = "latin"
    THEN Cardinality({i \in 1..Len(text) : CharIn(Char(text, i), UpperCase \o LowerCase)})
    ELSE 0

script_names ==
    <<"devanagari", "bengali", "tamil", "telugu", "gurmukhi", "gujarati", "latin">>

\* max(counts, key=counts.get): the first key with the largest count
FirstMax(counts) ==
    CHOOSE k \in DOMAIN counts :
        /\ \A j \in DOMAIN counts : counts[j] <= counts[k]
        /\ \A j \in DOMAIN counts : j < k => counts[j] < counts[k]

\* None when no script has three characters; the scripts other than Latin
\* have none in these messages
detect_by_script(text) ==
    Let([s \in 1..Len(script_names) |-> ScriptCount(text, script_names[s])],
        LAMBDA script_counts :
            IF script_counts[FirstMax(script_counts)] >= 3
               /\ script_names[FirstMax(script_counts)] = "latin"
            THEN Str("english") ELSE None)

\* a-z, A-Z, 0-9 and _ are the characters of a word of a regular expression
IsWordChar(c) == CharIn(c, UpperCase \o LowerCase \o DigitChars \o "_")

\* re.search(r'\b' + pattern + r'\b', text) for a pattern of letters
WordMatch(text, pattern) ==
    \E i \in 1..(Len(text) - Len(pattern) + 1) :
        /\ SubSeq(text, i, i + Len(pattern) - 1) = pattern
        /\ i = 1 \/ ~IsWordChar(Char(text, i - 1))
        /\ i + Len(pattern) - 1 = Len(text) \/ ~IsWordChar(Char(text, i + Len(pattern)))

\* count * weight, in tenths
LanguageScore(text_lower, data) ==
    Cardinality({p \in 1..Len(data.patterns) : WordMatch(text_lower, data.patterns[p])})
        * data.weight

detect_by_keywords(text) ==
    Let([l \in 1..Len(language_patterns) |-> LanguageScore(lower(text), language_patterns[l])],
        LAMBDA scores :
            IF scores[FirstMax(scores)] >= 20
            THEN language_patterns[FirstMax(scores)].lang ELSE "hindi")

detect_language(text) ==
    IF Len(text) = 0 \/ Len(strip(text, Whitespace)) = 0 THEN "hindi"
    ELSE IF detect_by_script(text) # None THEN detect_by_script(text)[1]
    ELSE detect_by_keywords(text)

check_for_clinic_request(text) == AnyIn(clinic_keywords, lower(text))

\* word.strip('.,!?;:')
CleanedWord(word) == strip(word, ".,!?;:")

IsLocationWord(cleaned_word) ==
    ~InList(lower(cleaned_word), skip_words) /\ Len(cleaned_word) > 2

LocationWords(words) ==
    SelectSeq([i \in 1..Len(words) |-> CleanedWord(words[i])], IsLocationWord)

FirstThree(location_words) ==
    SubSeq(location_words, 1, IF Len(location_words) < 3 THEN Len(location_words) ELSE 3)

\* an Optional[str]
extract_location(user_input) ==
    Let(strip(user_input, Whitespace),
        LAMBDA text :
            IF isdigit(text) /\ Len(text) = 6 THEN Str(text)
            ELSE IF LocationWords(split(text)) # <<>>
            THEN Str(join(" ", FirstThree(LocationWords(split(text)))))
            ELSE IF Len(text) > 2 THEN Str(text)
            ELSE None)

detect_emergency(text) ==
    \E lang \in 1..Len(emergency_keywords) : AnyIn(emergency_keywords[lang], lower(text))

HasSymptom(text_lower, entry) == AnyIn(entry.keywords, text_lower)

\* the names of the symptoms a keyword of which is in the text, in the order
\* of the table
extract_symptoms(text) ==
    Let(lower(text),
        LAMBDA text_lower :
            Let(SelectSeq(symptom_keywords, LAMBDA entry : HasSymptom(text_lower, entry)),
                LAMBDA found : [i \in 1..Len(found) |-> found[i].symptom]))

detect_image_request(text) == AnyIn(image_keywords, lower(text))

\* ------------------------------------------------------------------------
\* The replies.  A reply is the template it comes from (fn), the language of
\* the variant chosen and the line of that variant that tells it apart or
\* that mentions a clinic; the reply of the clinic search is its arguments
\* (what the search finds is in the database).
\* ------------------------------------------------------------------------
Reply(fn, language, text) == [fn |-> fn, language |-> language, text |-> text]

\* responses.get(language, responses['hindi'])
OrHindi(language) == IF language = "english" THEN "english" ELSE "hindi"

\* instructions.get(language, instructions['english'])
OrEnglish(language) == IF language = "hindi" THEN "hindi" ELSE "english"

handle_headache(language) ==
    Reply("handle_headache", OrHindi(language),
          IF OrHindi(language) = "hindi"
          THEN "**Kya aapko najdeeki clinic ki zaroorat hai?**"
          ELSE "**Do you need nearby clinic information?**")

handle_fever(language) ==
    Reply("handle_fever", OrHindi(language),
          IF OrHindi(language) = "hindi"
          THEN "**Kya aapko najdeeki clinic ki zaroorat hai?** Apna area bataayein, main clinic suggest kar dunga/dungi."
          ELSE "**Do you need nearby clinic information?** Share your area, and I'll suggest clinics.")

handle_stomach_pain(language) ==
    Reply("handle_stomach_pain", OrHindi(language),
          IF OrHindi(language) = "hindi"
          THEN "**Kya aapko najdeeki clinic ki zaroorat hai?**"
          ELSE "**Do you need nearby clinic information?**")

get_general_symptom_advice(symptoms, language) ==
    Reply("get_general_symptom_advice", OrHindi(language),
          IF OrHindi(language) = "hindi"
          THEN "Kya main aapke liye najdeeki clinic dhoondh doon? Apna area, city, ya pincode bataayein."
          ELSE "Should I find nearby clinics for you? Please share your area, city, or pincode.")

get_general_health_tips(language) ==
    Reply("get_general_health_tips", OrHindi(language),
          IF OrHindi(language) = "hindi"
          THEN "Namaste! Main SwasthyaGuide hoon."
          ELSE "Hello! I'm SwasthyaGuide.")

get_symptom_response(symptoms, language) ==
    IF symptoms = <<>> THEN get_general_health_tips(language)
    ELSE IF InList("headache", symptoms) THEN handle_headache(language)
    ELSE IF InList("fever", symptoms) THEN handle_fever(language)
    ELSE IF InList("stomach_pain", symptoms) THEN handle_stomach_pain(language)
    ELSE get_general_symptom_advice(symptoms, language)

get_emergency_response(language) ==
    Reply("get_emergency_response", OrHindi(language),
          IF OrHindi(language) = "hindi"
          THEN "YEH EMERGENCY JAISA LAG RAHA HAI!"
          ELSE "THIS SEEMS LIKE AN EMERGENCY!")

get_image_analysis_instructions(language) ==
    Reply("get_image_analysis_instructions", OrEnglish(language),
          "IMAGE ANALYSIS INSTRUCTIONS:")

get_common_skin_conditions_info(language) ==
    Reply("get_common_skin_conditions_info", OrEnglish(language),
          "COMMON SKIN CONDITIONS:")

find_nearby_clinics(location, language) ==
    [fn |-> "find_nearby_clinics", location |-> location, language |-> language]

\* the user declined the clinic search
Declined(language) ==
    IF language = "hindi"
    THEN Reply("declined_clinic", "hindi", "Theek hai. Koi baat nahi!")
    ELSE Reply("declined_clinic", "english", "Okay, no problem!")

\* the bot asks again for a location
LocationRequest(language) ==
    IF language = "hindi"
    THEN Reply("location_request", "hindi",
               "Kripya apna area, city, ya pincode clearly bataayein.")
    ELSE Reply("location_request", "english",
               "Please clearly share your area, city, or pincode.")

\* the bot asks for the location of a clinic request that names none
AskLocation(language) ==
    IF language = "hindi"
    THEN Reply("ask_location", "hindi",
               "Kripya apna area, city, ya pincode bataayein toh main aapko najdeeki clinic suggest kar sakta/sakti hoon.")
    ELSE Reply("ask_location", "english",
               "Please share your area, city, or pincode so I can suggest nearby clinics.")

\* ------------------------------------------------------------------------
\* process_message.  Logging the conversation and updating the profile
\* write to the database inside try blocks of their own and are left out.
\* ------------------------------------------------------------------------

\* what a call did: the context it left, its reply, the intent it logged
Handled(context, response, detected_intent) ==
    [user_context |-> context, response |-> response,
     detected_intent |-> detected_intent]

\* the language of the replies: English is answered in Hindi
ResponseLanguage(user_input) ==
    IF detect_language(user_input) = "english" THEN "hindi"
    ELSE detect_language(user_input)

HasNegativeWord(user_input) ==
    \E i \in 1..Len(negative_words) : InList(negative_words[i], split(lower(user_input)))

HasAffirmativeWord(user_input) ==
    \E i \in 1..Len(affirmative_words) :
        InList(affirmative_words[i], split(lower(user_input)))

IsShortAffirmative(user_input) ==
    HasAffirmativeWord(user_input) /\ Len(split(user_input)) <= 3

\* the response asks about a clinic
AsksAboutClinic(response) ==
    Let(lower(response.text),
        LAMBDA text :
            \/ Contains(text, "najdeeki clinic")
            \/ Contains(text, "nearby clinic")
            \/ Contains(text, "clinic suggest"))

HasSkinWord(user_input) == AnyIn(skin_words, lower(user_input))

\* what the functions that process_message calls make of a message; a
\* message is understood once, whatever the bot was waiting for
Heard(user_input) ==
    [user_input |-> user_input,
     language |-> ResponseLanguage(user_input),
     negative_word |-> HasNegativeWord(user_input),
     short_affirmative |-> IsShortAffirmative(user_input),
     extract_location |-> extract_location(user_input),
     detect_image_request |-> detect_image_request(user_input),
     skin_word |-> HasSkinWord(user_input),
     detect_emergency |-> detect_emergency(user_input),
     check_for_clinic_request |-> check_for_clinic_request(user_input),
     extract_symptoms |-> extract_symptoms(user_input),
     get_symptom_response |->
         get_symptom_response(extract_symptoms(user_input), ResponseLanguage(user_input)),
     asks_about_clinic |->
         AsksAboutClinic(get_symptom_response(extract_symptoms(user_input),
                                              ResponseLanguage(user_input)))]

\* location is the Optional[str] of extract_location
ClinicSearch(context, location, language) ==
    Handled([context EXCEPT !.location = location, !.waiting_for_location = FALSE],
            find_nearby_clinics(location[1], language), "clinic_search")

\* the branch of a bot that is waiting for a location
ContinueLocation(context, heard) ==
    IF heard.negative_word
    THEN Handled([context EXCEPT !.waiting_for_location = FALSE],
                 Declined(heard.language), "declined_clinic")
    ELSE IF heard.short_affirmative
    THEN Handled(context, LocationRequest(heard.language), "location_request")
    ELSE IF heard.extract_location # None
    THEN ClinicSearch(context, heard.extract_location, heard.language)
    ELSE Handled(context, LocationRequest(heard.language), "location_request")

ClinicRequest(context, heard) ==
    IF heard.extract_location # None
    THEN ClinicSearch(context, heard.extract_location, heard.language)
    ELSE Handled([context EXCEPT !.waiting_for_location = TRUE],
                 AskLocation(heard.language), "clinic_search")

WaitingAfterUnset(waiting_for_location, asks_about_clinic) == waiting_for_location

\* waiting_for_location after a symptom reply
WaitingAfter(waiting_for_location, asks_about_clinic) ==
    IF asks_about_clinic THEN TRUE ELSE waiting_for_location

SymptomCheck(context, heard) ==
    Handled([context EXCEPT !.symptoms = heard.extract_symptoms,
                            !.last_detected_symptoms = heard.extract_symptoms,
                            !.waiting_for_location =
                                WaitingAfter(@, heard.asks_about_clinic)],
            heard.get_symptom_response, "symptom_check")

\* the checks of a bot that is not waiting, in the order of the code
NewQuery(context, heard) ==
    IF heard.detect_image_request
    THEN Handled(context, get_image_analysis_instructions(heard.language),
                 "image_request")
    ELSE IF heard.skin_word
    THEN Handled(context, get_common_skin_conditions_info(heard.language),
                 "skin_info")
    ELSE IF heard.detect_emergency
    THEN Handled([context EXCEPT !.emergency_detected = TRUE],
                 get_emergency_response(heard.language), "emergency")
    ELSE IF heard.check_for_clinic_request
    THEN ClinicRequest(context, heard)
    ELSE IF heard.extract_symptoms # <<>>
    THEN SymptomCheck(context, heard)
    ELSE Handled(context, get_general_health_tips(heard.language), "general")

IsWaitingNever(context) == FALSE

\* self.user_context.get('waiting_for_location', False)
IsWaiting(context) == context.waiting_for_location

process_message(context, heard) ==
    IF IsWaiting(context)
    THEN ContinueLocation([context EXCEPT !.language = Str(heard.language)], heard)
    ELSE NewQuery([context EXCEPT !.language = Str(heard.language)], heard)

\* the messages the users send
Messages ==
    {"mujhe bukhar hai", "Lucknow", "sir dard ho raha hai", "nahi", "haan",
     "ha", "me", "226010", "", "seene mein dard", "saans nahi aa rahi",
     "chest pain", "clinic chahiye", "photo bhejo", "skin accident",
     "doctor bukhar", "heart attack photo", "chest pain hospital", "namaste",
     "pratapgarh", "ok lucknow please", "haan gomti nagar mein hai",
     "pet dard", "kamzori", "Gomti Nagar, Lucknow!", "No thanks"}

ProcessMessage ==
    \E user_input \in Messages :
        \E heard \in {h \in {Heard(user_input)} : h = h} :
          \E done \in {process_message(user_context, heard)} :
            /\ call' = [fn |-> "process_message", user_input |-> user_input,
                         heard |-> heard]
            /\ ret' = Return([response |-> done.response,
                              detected_intent |-> done.detected_intent])
            /\ user_context' = done.user_context
            /\ UNCHANGED <<analysis_history, result, stages, successes, comparison, threads>>
            /\ UNCHANGED sessions

ChatNext == ProcessMessage

ChatSpec == Init /\ [][ChatNext]_vars

\* ------------------------------------------------------------------------
\* C21: the bot keeps the context of a conversation.  After a symptom reply
\* that asks about a nearby clinic waiting_for_location is true; when the
\* next message has no negative word, is not a short affirmative and yields
\* a location, the reply is the clinic search for that location, the
\* location is stored and waiting_for_location is cleared.
\* ------------------------------------------------------------------------

\* the reply r to the call c is a symptom reply that asks about a clinic
AskedAboutClinic(c, r) ==
    /\ c.fn = "process_message"
    /\ r.value.detected_intent = "symptom_check"
    /\ AsksAboutClinic(r.value.response)

\* no negative word, not a short affirmative, and a location
GivesLocation(heard) ==
    /\ ~heard.negative_word
    /\ ~heard.short_affirmative
    /\ heard.extract_location # None

AnsweredWithClinics(heard, reply, context) ==
    /\ reply.detected_intent = "clinic_search"
    /\ reply.response.fn = "find_nearby_clinics"
    /\ reply.response.location = heard.extract_location[1]
    /\ context.location = heard.extract_location
    /\ ~context.waiting_for_location

C21_Step ==
    /\ AskedAboutClinic(call', ret') => user_context'.waiting_for_location
    /\ AskedAboutClinic(call, ret) /\ GivesLocation(call'.heard)
           => AnsweredWithClinics(call'.heard, ret'.value, user_context')

C21_KeepsContext == [][C21_Step]_vars

\* "Lucknow" after a symptom: without the context the reply would be the
\* general tips
C21_Witness ==
    /\ call.fn = "process_message"
    /\ call.user_input = "Lucknow"
    /\ ret.value.response = find_nearby_clinics("Lucknow", "hindi")
    /\ user_context.symptoms = <<"fever">>
    /\ user_context.location = Str("Lucknow")
    /\ ~user_context.waiting_for_location

\* ------------------------------------------------------------------------
\* C29: while waiting_for_location is true every message is handled in the
\* location branch, before the image, skin, emergency, clinic and symptom
\* checks: a message with an emergency keyword gets a location or clinic
\* reply and emergency_detected is not set.  When it is false the checks
\* run in the order image request, skin info, emergency, clinic request,
\* symptoms, general tips.
\* ------------------------------------------------------------------------

\* the intent of the first check of the fixed order that the message meets
FirstCheck(heard) ==
    IF heard.detect_image_request THEN "image_request"
    ELSE IF heard.skin_word THEN "skin_info"
    ELSE IF heard.detect_emergency THEN "emergency"
    ELSE IF heard.check_for_clinic_request THEN "clinic_search"
    ELSE IF heard.extract_symptoms # <<>> THEN "symptom_check"
    ELSE "general"

InPriorityOrder ==
    ~user_context.waiting_for_location
        => ret'.value.detected_intent = FirstCheck(call'.heard)

\* none of the later checks left a trace in the context
NoLaterCheck ==
    /\ user_context'.emergency_detected = user_context.emergency_detected
    /\ user_context'.symptoms = user_context.symptoms
    /\ user_context'.last_detected_symptoms = user_context.last_detected_symptoms

LocationOrClinicReply == {"location_request", "find_nearby_clinics"}

LocationBranchReply == {"declined_clinic"} \cup LocationOrClinicReply

\* the claim as written: an emergency keyword gets a location or clinic reply
C29_EmergencyGetsLocationReply ==
    [][/\ user_context.waiting_for_location
            => /\ ret'.value.response.fn \in LocationBranchReply
               /\ NoLaterCheck
               /\ call'.heard.detect_emergency
                      => ret'.value.response.fn \in LocationOrClinicReply
       /\ InPriorityOrder]_vars

\* C29 as amended: the reply to an emergency keyword is one of the three
\* replies of the location branch, the refusal among them
C29_LocationBranchFirst ==
    [][/\ user_context.waiting_for_location
            => /\ ret'.value.response.fn \in LocationBranchReply
               /\ NoLaterCheck
               /\ call'.heard.detect_emergency
                      => ret'.value.response.fn # "get_emergency_response"
       /\ InPriorityOrder]_vars

\* an emergency keyword answered with the clinic search; the context has a
\* symptom, and no emergency
C29_Witness ==
    /\ call.fn = "process_message"
    /\ call.heard.detect_emergency
    /\ ret.value.response.fn = "find_nearby_clinics"
    /\ user_context.symptoms # <<>>
    /\ ~user_context.emergency_detected

\* ------------------------------------------------------------------------
\* The session manager of the web application (src/app.py): one bot per
\* sender, kept in two dicts.  The clock counts seconds; both readings of
\* datetime.now() in one call give the same second.  A bot is the arguments
\* it was built with and its serial number, which stands for the identity
\* of the object.
\* ------------------------------------------------------------------------
SESSION_TIMEOUT == 1800

\* cleanup runs with more sessions than this
CleanupAbove == 50

\* the senders that are in the table from the start and never call again
CrowdSize == 49

\* the senders that call
MaxCallers == 3

\* the clock stops here
MaxClock == 2702

\* the seconds between two calls
Elapse == {900, 901}

\* request.values.get('From'): the n-th WhatsApp sender
Sender(n) == "whatsapp:+91" \o ToString(n)

Crowd == {Sender(n) : n \in 1..CrowdSize}

Callers == {Sender(n) : n \in (CrowdSize + 1)..(CrowdSize + MaxCallers)}

\* sender.replace('whatsapp:', '') if sender.startswith('whatsapp:') else sender
UserPhone(sender) ==
    IF Len(sender) >= 9 /\ SubSeq(sender, 1, 9) = "whatsapp:"
    THEN SubSeq(sender, 10, Len(sender)) ELSE sender

\* SwasthyaGuide(session_id=sender, user_phone=user_phone), the serial-th object
SwasthyaGuide(session_id, user_phone, serial) ==
    [session_id |-> session_id, user_phone |-> user_phone, serial |-> serial]

\* the tables after table[key] = value
Put(table, key, value) ==
    [k \in DOMAIN table \cup {key} |-> IF k = key THEN value ELSE table[k]]

\* the tables after table.pop(key, None) for every key of keys
Without(table, keys) == [k \in DOMAIN table \ keys |-> table[k]]

\* sessions_to_remove
SessionsToRemove(timestamps, current_time) ==
    {session_id \in DOMAIN timestamps :
        current_time - timestamps[session_id] > SESSION_TIMEOUT}

cleanup_old_sessions(tables, current_time) ==
    [user_sessions |->
         Without(tables.user_sessions,
                 SessionsToRemove(tables.session_timestamps, current_time)),
     session_timestamps |->
         Without(tables.session_timestamps,
                 SessionsToRemove(tables.session_timestamps, current_time))]

NeedsCleanupAlways(sessions_table) == TRUE

\* len(user_sessions) > 50
NeedsCleanup(sessions_table) == Cardinality(DOMAIN sessions_table) > CleanupAbove

\* the tables after the call, the bot returned and whether it was built now
get_or_create_session(tables, sender, user_phone, now, serial) ==
    Let(IF NeedsCleanup(tables.user_sessions)
        THEN cleanup_old_sessions(tables, now) ELSE tables,
        LAMBDA cleaned :
            Let(IF sender \notin DOMAIN cleaned.user_sessions
                THEN SwasthyaGuide(sender, user_phone, serial)
                ELSE cleaned.user_sessions[sender],
                LAMBDA bot :
                    [user_sessions |-> Put(cleaned.user_sessions, sender, bot),
                     session_timestamps |-> Put(cleaned.session_timestamps, sender, now),
                     created |-> sender \notin DOMAIN cleaned.user_sessions,
                     bot |-> bot]))

\* the crowd has called once, all in the first second
SessionInit ==
    /\ analysis_history = <<>>
    /\ result = None
    /\ stages = <<>>
    /\ successes = 0
    /\ comparison = NotCompared
    /\ user_context = NewContext
    /\ threads = NoThreads
    /\ call = NoCall
    /\ ret = Pending
    /\ user_sessions =
           [sender \in Crowd |->
               SwasthyaGuide(sender, UserPhone(sender),
                             CHOOSE n \in 1..CrowdSize : Sender(n) = sender)]
    /\ session_timestamps = [sender \in Crowd |-> 0]
    /\ constructed = CrowdSize
    /\ clock = 0

GetOrCreateSession ==
    \E sender \in Callers :
        \E done \in {get_or_create_session(
                          [user_sessions |-> user_sessions,
                           session_timestamps |-> session_timestamps],
                          sender, UserPhone(sender), clock, constructed + 1)} :
            /\ user_sessions' = done.user_sessions
            /\ session_timestamps' = done.session_timestamps
            /\ constructed' = IF done.created THEN constructed + 1 ELSE constructed
            /\ call' = [fn |-> "get_or_create_session", sender |-> sender]
            /\ ret' = Return(done.bot)
            /\ UNCHANGED <<analysis_history, result, stages, successes, comparison,
                           user_context, threads, clock>>

\* time passes between two requests
Tick ==
    \E seconds \in Elapse :
        /\ clock + seconds <= MaxClock
        /\ clock' = clock + seconds
        /\ UNCHANGED <<analysis_history, result, stages, successes, comparison, call,
                       ret, user_context, threads, user_sessions, session_timestamps,
                       constructed>>

SessionNext ==
    \/ GetOrCreateSession
    \/ Tick

SessionSpec == SessionInit /\ [][SessionNext]_vars

\* ------------------------------------------------------------------------
\* C30: after every call of get_or_create_session the two tables have the
\* same keys and hold the sender; a sender gets the same bot on every call
\* until a cleanup removes it; a cleanup runs only with more than 50
\* sessions and removes exactly the sessions idle for more than 1800
\* seconds, so with 50 sessions or fewer an expired session is reused.
\* ------------------------------------------------------------------------

\* the step is a call of get_or_create_session
IsSessionCall == call'.fn = "get_or_create_session" /\ clock' = clock

\* the sessions idle for more than 1800 seconds before the call
IdleSessions ==
    {s \in DOMAIN user_sessions : clock - session_timestamps[s] > 1800}

\* the sessions the call may remove
RemovedByCall ==
    IF Cardinality(DOMAIN user_sessions) > 50 THEN IdleSessions ELSE {}

C30_Call ==
    /\ DOMAIN user_sessions' = DOMAIN session_timestamps'
    /\ call'.sender \in DOMAIN user_sessions'
    /\ ret'.value = user_sessions'[call'.sender]
    /\ DOMAIN user_sessions' = (DOMAIN user_sessions \ RemovedByCall) \cup {call'.sender}
    /\ \A s \in DOMAIN user_sessions \ RemovedByCall : user_sessions'[s] = user_sessions[s]
    /\ call'.sender \notin DOMAIN user_sessions \ RemovedByCall
           => \A s \in DOMAIN user_sessions : ret'.value # user_sessions[s]

C30_SessionTables == [][IsSessionCall => C30_Call]_vars

\* a cleanup has removed the crowd and kept the bot of a caller who had
\* called 900 seconds before; the caller of this call got a new bot
C30_Witness ==
    /\ call.fn = "get_or_create_session"
    /\ Crowd \cap DOMAIN user_sessions = {}
    /\ ret.value.serial > CrowdSize + MaxCallers
    /\ \E s \in DOMAIN user_sessions :
           /\ s # call.sender
           /\ session_timestamps[s] = clock - 900
           /\ user_sessions[s].serial <= CrowdSize + MaxCallers

====
